---- MODULE Spec2Model ----
(***************************************************************************)
(* The task/macro execution engine of fake_dungeon.py (DungeonAutomation)  *)
(* as a call-stack machine: one frame per active Python call, one action   *)
(* per function body segment between two calls.  The device and the screen *)
(* are the environment: every poll of the matcher may hit or miss.         *)
(***************************************************************************)
EXTENDS Integers, Sequences, FiniteSets, TLC

\* Depth of the interpreter's call stack at which a call raises
\* RecursionError (CPython's recursion limit, scaled down).
RecursionLimit == 9
\* Value at which the round counter of run_all_tasks_with_retry saturates: with
\* max_rounds = 0 the counter only feeds the log, and every max_rounds that is
\* run is at most MaxRound.
MaxRound == 3
\* Value at which the click counter of click_while_exists saturates: with
\* max_clicks = 0 the counter only feeds the log, and every max_clicks that is
\* run is at most MaxClicks.
MaxClicks == 3

VARIABLES
    cfg,             \* the loaded configuration and the entry point that is run
    phase,           \* "new", "ready", "running", "done", "init_failed", "crashed"
    macros,          \* self.macros
    tasks,           \* self.tasks (expanded)
    in_return_home,  \* self._in_return_home
    stop_flag,       \* the worker's stop_event
    stack,           \* the worker thread's call stack, innermost frame last
    ret,             \* value returned by the call that ended last ("-" if consumed)
    error,           \* exception that ended construction or the run ("" if none)
    devOps,          \* device operations issued by the last step
    touched,         \* some tap, key event or screen capture has been issued
    recovRuns,       \* runs of the recovery macro begun since the current attempt began
    attempted,       \* task indices started in the current batch or round, in order
    history,         \* observations of the retry rounds
    input,           \* arguments of the function under study
    output,          \* what the function returned
    heap,            \* step objects by address, where steps are held by reference
    template_cache,  \* TemplateMatcher._template_cache
    lookup,          \* position of each caller of _get_gray_template
    loads,           \* how often each pattern file has been read
    workers,         \* the DungeonWorker threads created so far, in order
    gui              \* DungeonGUI: self.worker and the callback in progress

vars == <<cfg, phase, macros, tasks, in_return_home, stop_flag, stack, ret,
          error, devOps, touched, recovRuns, attempted, history,
         input, output, heap, template_cache, lookup, loads, workers, gui>>

\* The state outside the engine.
aux == <<input, output, heap, template_cache, lookup, loads, workers, gui>>

----------------------------------------------------------------------------
\* Steps of a script, as the JSON objects of the configuration.

Use(m) == [use_macro |-> m]
Click == [action |-> "wait_and_click", template |-> "X", timeout |-> 2, click_times |-> 2]
Wait == [action |-> "wait_for_template", template |-> "X", timeout |-> 1]
Key == [action |-> "keyevent", keycode |-> "BACK", repeat |-> 1]
Sleep == [action |-> "sleep", seconds |-> 1]
Bogus == [action |-> "bogus"]

\* wait_and_click_or / _yes / _no: probe the primary pattern, then click.
Cond(action, ignore) ==
    [action |-> action, primary_template |-> "P", fallback_template |-> "F",
     primary_timeout |-> 1, fallback_timeout |-> 1, click_times |-> 1,
     ignore_fallback_fail |-> ignore]
CondNoFallback == [action |-> "wait_and_click_or", primary_template |-> "P"]

WhileExistsTimes(click_times, max_clicks, max_duration) ==
    [action |-> "click_while_exists", template |-> "X", per_timeout |-> 1,
     click_times |-> click_times, max_clicks |-> max_clicks, max_duration |-> max_duration]
WhileExists(max_clicks, max_duration) == WhileExistsTimes(1, max_clicks, max_duration)
WaitLoop(max_wait) ==
    [action |-> "wait_and_click_loop", template |-> "X", per_timeout |-> 1,
     max_wait |-> max_wait, click_times |-> 1]
AnyWhileExists(templates, max_clicks, max_duration) ==
    [action |-> "click_any_while_exists", templates |-> templates, per_timeout |-> 1,
     click_times |-> 1, max_clicks |-> max_clicks, max_duration |-> max_duration]

IsUse(step) == "use_macro" \in DOMAIN step

Task(name, steps) == [name |-> name, steps |-> steps]

Min(a, b) == IF a <= b THEN a ELSE b

\* dict.get(name) of the macro table, where the code only tests the result
\* for truth: <<>> stands for None as well as for an empty list.
macros_get(name) == IF name \in DOMAIN macros THEN macros[name] ELSE <<>>

\* `not sub_steps`
NotSteps(steps) == steps = <<>>

\* self._action_handlers
CondActions == {"wait_and_click_or", "wait_and_click_yes", "wait_and_click_no"}
WhileExistsActions == {"click_while_exists", "click_any_while_exists"}
ActionHandlers ==
    {"wait_and_click", "wait_for_template", "sleep", "keyevent", "wait_and_click_loop"}
    \cup CondActions \cup WhileExistsActions

----------------------------------------------------------------------------
\* Load-time expansion.

\* InlineSteps that moves the inlined steps behind the task's own steps.
RECURSIVE InlineAtEnd(_, _)
InlineAtEnd(steps, mtab) ==
    IF steps = <<>> THEN <<>>
    ELSE LET step == Head(steps)
             rest == InlineAtEnd(Tail(steps), mtab)
         IN  IF IsUse(step) THEN rest \o mtab[step.use_macro] ELSE <<step>> \o rest

RECURSIVE InlineSteps(_, _)
InlineSteps(steps, mtab) ==
    IF steps = <<>> THEN <<>>
    ELSE LET step == Head(steps)
             rest == InlineSteps(Tail(steps), mtab)
         IN  IF IsUse(step) THEN mtab[step.use_macro] \o rest ELSE <<step>> \o rest

UndefinedRef(steps, mtab) ==
    \E i \in 1..Len(steps) : IsUse(steps[i]) /\ steps[i].use_macro \notin DOMAIN mtab

\* InlineSteps that skips the references it cannot resolve.
RECURSIVE KeepUndefined(_, _)
KeepUndefined(steps, mtab) ==
    IF steps = <<>> THEN <<>>
    ELSE LET step == Head(steps)
             rest == KeepUndefined(Tail(steps), mtab)
         IN  IF IsUse(step) /\ step.use_macro \in DOMAIN mtab
             THEN mtab[step.use_macro] \o rest ELSE <<step>> \o rest

\* expand_single_task without its check: a reference to an undefined macro
\* stays in the task as it is.
expand_single_task_lenient(task_conf, mtab) ==
    [raised |-> FALSE,
     task |-> [task_conf EXCEPT !.steps = KeepUndefined(task_conf.steps, mtab)]]

expand_single_task(task_conf, mtab) ==
    IF UndefinedRef(task_conf.steps, mtab)
    THEN [raised |-> TRUE, task |-> task_conf]
    ELSE [raised |-> FALSE,
          task |-> [task_conf EXCEPT !.steps = InlineSteps(task_conf.steps, mtab)]]

expand_tasks_with_macros(tasks_conf, mtab) ==
    LET each == [i \in 1..Len(tasks_conf) |-> expand_single_task(tasks_conf[i], mtab)]
    IN  [raised |-> \E i \in 1..Len(tasks_conf) : each[i].raised,
         tasks |-> [i \in 1..Len(tasks_conf) |-> each[i].task]]

----------------------------------------------------------------------------
\* The configurations and entry points that are run.

HOME == "return_to_main"

MacroTables ==
    { (HOME :> <<Key>>) @@ ("a" :> <<Use("b")>>) @@ ("b" :> <<Click, Key>>),
      (HOME :> <<Click, Key>>) @@ ("a" :> <<Key, Use("a")>>),
      (HOME :> <<Use("a")>>) @@ ("a" :> <<Use("a")>>),
      (HOME :> <<Bogus, Key>>) @@ ("a" :> <<Use("b"), Key>>) @@ ("b" :> <<>>),
      ("a" :> <<Use("ghost"), Key>>) @@ ("b" :> <<Use("a"), Key>>) }

TaskLists ==
    { <<Task("t1", <<Use("a")>>), Task("t2", <<Click, Key>>)>>,
      <<Task("t1", <<Bogus, Click>>), Task("t2", <<Use("ghost")>>)>>,
      <<Task("t1", <<Click>>), Task("t2", <<Bogus, Wait, Sleep>>), Task("t3", <<Click>>)>>,
      <<Task("t1", <<Use("a")>>)>>,
      <<Task("t1", <<Wait, Use("a"), Sleep>>)>>,
      <<>> }

Calls ==
    { [fn |-> "run_all_tasks", max_rounds |-> 0, macro_name |-> ""] }
    \cup { [fn |-> "run_all_tasks_with_retry", max_rounds |-> n, macro_name |-> ""] : n \in 0..3 }
    \cup { [fn |-> "run_macro_by_name", max_rounds |-> 0, macro_name |-> m] : m \in {"a", "b"} }

----------------------------------------------------------------------------
\* The call stack.

Top == stack[Len(stack)]
Below == SubSeq(stack, 1, Len(stack) - 1)

At(fn, pc) == phase = "running" /\ stack # <<>> /\ Top.fn = fn /\ Top.pc = pc

\* _in_return_home once the finally clause of every try_return_home on stk has run.
FinallyFlag(stk, flag) ==
    LET idx == {i \in 1..Len(stk) : stk[i].fn = "try_return_home" /\ stk[i].pc = "run"}
    IN  IF idx = {} THEN flag
        ELSE stk[CHOOSE i \in idx : \A j \in idx : i <= j].old_flag

Return(v) ==
    /\ stack' = Below
    /\ ret' = v
    /\ UNCHANGED <<phase, error, in_return_home>>

Goto(frame) ==
    /\ stack' = Append(Below, frame)
    /\ ret' = "-"
    /\ UNCHANGED <<phase, error, in_return_home>>

\* The top frame becomes `frame` and calls `callee`; `flag` is _in_return_home
\* at the call.  A call beyond the recursion limit raises RecursionError, which
\* unwinds to the worker's `except Exception`.
CallWith(frame, callee, flag) ==
    IF Len(stack) >= RecursionLimit
    THEN /\ stack' = <<>>
         /\ ret' = "-"
         /\ phase' = "crashed"
         /\ error' = "RecursionError"
         /\ in_return_home' = FinallyFlag(Append(Below, frame), flag)
    ELSE /\ stack' = Append(Append(Below, frame), callee)
         /\ ret' = "-"
         /\ in_return_home' = flag
         /\ UNCHANGED <<phase, error>>

Call(frame, callee) == CallWith(frame, callee, in_return_home)

Dev(ops) ==
    /\ devOps' = ops
    /\ touched' = (touched \/ ops # <<>>)

F_run_steps(steps) == [fn |-> "_run_steps", pc |-> "loop", steps |-> steps, i |-> 1]
F_run_single_task(t) ==
    [fn |-> "run_single_task", pc |-> "loop", task |-> t, steps |-> tasks[t].steps, i |-> 1]
F_try_return_home == [fn |-> "try_return_home", pc |-> "start", old_flag |-> FALSE]
\* A call of an action handler, with its locals; tapped (the taps the handler's
\* matcher calls have issued) and missed (a round has timed out) are observations.
F_handler(step) ==
    [fn |-> "handler", pc |-> "start", step |-> step, has_primary |-> FALSE, total_clicks |-> 0,
     tapped |-> 0, missed |-> FALSE]
\* A call of the matcher: wait_for_template (tap = FALSE), wait_and_click or
\* wait_and_click_any (tap = TRUE) on the given patterns.
F_match(templates, timeout, tap, click_times) ==
    [fn |-> "matcher", pc |-> "poll", templates |-> templates, timeout |-> timeout,
     elapsed |-> 0, tap |-> tap, click_times |-> click_times, capture_failed |-> FALSE]
F_matcher(step, tap) ==
    F_match(<<step.template>>, step.timeout, tap, IF tap THEN step.click_times ELSE 0)
F_run_all_tasks == [fn |-> "run_all_tasks", pc |-> "loop", i |-> 1]
F_retry(max_rounds) ==
    [fn |-> "run_all_tasks_with_retry", pc |-> "start", max_rounds |-> max_rounds,
     remaining |-> <<>>, failed |-> <<>>, k |-> 1, round_idx |-> 1]
F_run_macro_by_name(m) == [fn |-> "run_macro_by_name", pc |-> "start", macro_name |-> m]
F_switch(m) == [fn |-> "switch_attempt", pc |-> "start", macro_name |-> m]

\* Observations of a scheduler run: the round in progress, the attempts and
\* failures of the round before, the failures of this round, the tasks that have
\* succeeded, the failed set of every finished round, the attempts per task and
\* the outcome of the last one, and the final report written to the log.
NoHistory ==
    [round |-> 0, prevAttempted |-> <<>>, prevFailed |-> {}, curFailed |-> {}, succeeded |-> {},
     failedSets |-> <<>>, attempts |-> <<>>, last |-> <<>>, report |-> ""]


----------------------------------------------------------------------------
NoOutput == "-"

AuxIdle ==
    /\ input = <<>>
    /\ output = NoOutput
    /\ heap = <<>>
    /\ template_cache = <<>>
    /\ lookup = <<>>
    /\ loads = <<>>
    /\ workers = <<>>
    /\ gui = <<>>

EngineInit(cfgs) ==
    /\ cfg \in cfgs
    /\ phase = "new"
    /\ macros = <<>>
    /\ tasks = <<>>
    /\ in_return_home = FALSE
    /\ stop_flag = FALSE
    /\ stack = <<>>
    /\ ret = "-"
    /\ error = ""
    /\ devOps = <<>>
    /\ touched = FALSE
    /\ recovRuns = 0
    /\ attempted = <<>>
    /\ history = NoHistory

InitWith(cfgs) == EngineInit(cfgs) /\ AuxIdle

Init == InitWith([macros : MacroTables, tasks : TaskLists, call : Calls])

\* DungeonAutomation.__init__
Construct ==
    /\ phase = "new"
    /\ LET e == expand_tasks_with_macros(cfg.tasks, cfg.macros)
       IN  /\ macros' = cfg.macros
           /\ in_return_home' = FALSE
           /\ IF e.raised
              THEN phase' = "init_failed" /\ error' = "ValueError" /\ tasks' = tasks
              ELSE phase' = "ready" /\ error' = error /\ tasks' = e.tasks
    /\ Dev(<<>>)
    /\ UNCHANGED <<aux, cfg, stop_flag, stack, ret, recovRuns, attempted, history>>

\* The caller invokes the entry point on the constructed engine.
Start ==
    /\ phase = "ready"
    /\ phase' = "running"
    /\ stack' = << CASE cfg.call.fn = "run_all_tasks" -> F_run_all_tasks
                     [] cfg.call.fn = "run_all_tasks_with_retry" -> F_retry(cfg.call.max_rounds)
                     [] OTHER -> F_switch(cfg.call.macro_name) >>
    /\ Dev(<<>>)
    /\ UNCHANGED <<aux, cfg, macros, tasks, in_return_home, stop_flag, ret, error,
                   recovRuns, attempted, history>>

Finish ==
    /\ phase = "running"
    /\ stack = <<>>
    /\ phase' = "done"
    /\ UNCHANGED <<aux, cfg, macros, tasks, in_return_home, stop_flag, stack, ret, error,
                   devOps, touched, recovRuns, attempted, history>>

\* DungeonWorker.stop, from the GUI thread while the worker is alive.
Stop ==
    /\ phase \in {"new", "ready", "running"}
    /\ ~stop_flag
    /\ stop_flag' = TRUE
    /\ UNCHANGED <<aux, cfg, phase, macros, tasks, in_return_home, stack, ret, error,
                   devOps, touched, recovRuns, attempted, history>>

----------------------------------------------------------------------------
\* TemplateMatcher.wait_and_click / wait_for_template: poll until the template
\* is seen or the timeout has passed.  A poll takes one interval.

\* Device operations: the operation and the pattern or key it is about.
Capture == <<"capture", "">>
CaptureFailed == <<"capture", "failed">>
Taps(template, click_times) ==
    [j \in 1..(IF click_times > 1 THEN click_times ELSE 1) |-> <<"tap", template>>]

\* Matching scores in tenths: the default threshold 0.8 and the initial
\* best_val -1.0 of wait_and_click_any.
Threshold == 8
InitialBest == -10
\* What one capture gives for a pattern: a score below, at or above the
\* threshold, or none (the pattern could not be loaded or is larger than the
\* region, and is passed over).
NoScore == -100
ScoreValues == {5, 8, 9}
Readings == {NoScore} \cup ScoreValues

BetterOrEqual(max_val, best_val) == max_val >= best_val
\* `if max_val > best_val`
Better(max_val, best_val) == max_val > best_val

\* The loop over the candidates of one capture, in list order.
RECURSIVE best_scan(_, _, _)
best_scan(readings, i, best) ==
    IF i > Len(readings) THEN best
    ELSE IF readings[i] = NoScore THEN best_scan(readings, i + 1, best)
    ELSE IF Better(readings[i], best.val)
    THEN best_scan(readings, i + 1, [idx |-> i, val |-> readings[i]])
    ELSE best_scan(readings, i + 1, best)

best_match(readings) == best_scan(readings, 1, [idx |-> 0, val |-> InitialBest])

\* `if best_name is not None and best_val >= threshold`
Hit(best, threshold) == best.idx # 0 /\ best.val >= threshold

FailsAtOnce(frame) == [frame EXCEPT !.elapsed = frame.timeout, !.capture_failed = TRUE]
\* `if not adb.screenshot(shot_path): time.sleep(interval); continue`
AfterFailedCapture(frame) == [frame EXCEPT !.elapsed = @ + 1, !.capture_failed = TRUE]

\* One iteration of the polling loop.  With a single pattern the scan is that
\* of _find_template_in_gray: the pattern's score against the threshold.
matcher_poll ==
    /\ At("matcher", "poll")
    /\ IF Top.elapsed < Top.timeout
       THEN \E captured \in BOOLEAN, readings \in [1..Len(Top.templates) -> Readings] :
                LET best == best_match(readings) IN
                IF ~captured
                THEN /\ Goto(AfterFailedCapture(Top))
                     /\ Dev(<<CaptureFailed>>)
                ELSE IF Hit(best, Threshold)
                THEN /\ Return("True")
                     /\ Dev(<<Capture>> \o (IF Top.tap
                                            THEN Taps(Top.templates[best.idx], Top.click_times)
                                            ELSE <<>>))
                ELSE /\ Goto([Top EXCEPT !.elapsed = Top.elapsed + 1])
                     /\ Dev(<<Capture>>)
       ELSE /\ Return("False")
            /\ Dev(<<>>)
    /\ UNCHANGED <<aux, cfg, macros, tasks, stop_flag, recovRuns, attempted, history>>

----------------------------------------------------------------------------
\* Recovery: try_return_home.

ReentryNeverBlocked(flag) == FALSE
\* `if self._in_return_home: return`
ReentryBlocked(flag) == flag

FlagLeftSet(old_flag) == TRUE
\* `finally: self._in_return_home = old_flag`
RestoredFlag(old_flag) == old_flag

ResultPassedOn(ok) == ok
\* the result of _run_steps is dropped; try_return_home returns None
RecoveryResult(ok) == "None"

try_return_home_enter ==
    /\ At("try_return_home", "start")
    /\ IF ReentryBlocked(in_return_home)
       THEN Return("None") /\ recovRuns' = recovRuns
       ELSE IF NotSteps(macros_get(HOME))
       THEN Return("None") /\ recovRuns' = recovRuns
       ELSE /\ CallWith([Top EXCEPT !.pc = "run", !.old_flag = in_return_home],
                        F_run_steps(macros_get(HOME)), TRUE)
            /\ recovRuns' = recovRuns + 1
    /\ Dev(<<>>)
    /\ UNCHANGED <<aux, cfg, macros, tasks, stop_flag, attempted, history>>

try_return_home_finally ==
    /\ At("try_return_home", "run")
    /\ stack' = Below
    /\ ret' = RecoveryResult(ret)
    /\ in_return_home' = RestoredFlag(Top.old_flag)
    /\ Dev(<<>>)
    /\ UNCHANGED <<aux, cfg, phase, macros, tasks, stop_flag, error, recovRuns, attempted, history>>

----------------------------------------------------------------------------
\* Action handlers.

\* _handle_wait_and_click and _handle_wait_for_template
handle_wait ==
    /\ phase = "running" /\ stack # <<>> /\ Top.fn = "handler"
    /\ Top.step.action \in {"wait_and_click", "wait_for_template"}
    /\ CASE Top.pc = "start" ->
              Call([Top EXCEPT !.pc = "matcher"],
                   F_matcher(Top.step, Top.step.action = "wait_and_click"))
         [] Top.pc = "matcher" ->
              IF ret = "True" THEN Return("True")
              ELSE Call([Top EXCEPT !.pc = "recover"], F_try_return_home)
         [] Top.pc = "recover" -> Return("False")
    /\ Dev(<<>>)
    /\ UNCHANGED <<aux, cfg, macros, tasks, stop_flag, recovRuns, attempted, history>>

handle_sleep ==
    /\ At("handler", "start")
    /\ Top.step.action = "sleep"
    /\ Return("True")
    /\ Dev(<<>>)
    /\ UNCHANGED <<aux, cfg, macros, tasks, stop_flag, recovRuns, attempted, history>>

handle_keyevent ==
    /\ At("handler", "start")
    /\ Top.step.action = "keyevent"
    /\ Return("True")
    /\ IF "keycode" \notin DOMAIN Top.step
       THEN Dev(<<>>)
       ELSE Dev([j \in 1..(IF Top.step.repeat > 1 THEN Top.step.repeat ELSE 1) |->
                    <<"key", Top.step.keycode>>])
    /\ UNCHANGED <<aux, cfg, macros, tasks, stop_flag, recovRuns, attempted, history>>

\* _handle_wait_and_click_or / _yes / _no pass their mode to
\* _handle_conditional_click.
ModeOf(action) ==
    CASE action = "wait_and_click_or" -> "or"
      [] action = "wait_and_click_yes" -> "yes"
      [] action = "wait_and_click_no" -> "no"

NeverSkips(mode, has_primary) == FALSE
\* mode yes: `if not has_primary: return True`; mode no: `if has_primary: return True`
Skips(mode, has_primary) ==
    \/ mode = "yes" /\ ~has_primary
    \/ mode = "no" /\ has_primary

AlwaysFallback(mode, has_primary, primary, fallback) == fallback
\* the pattern handed to wait_and_click after the probe
ClickTarget(mode, has_primary, primary, fallback) ==
    IF mode = "or" /\ has_primary THEN primary ELSE fallback

FailureNeverIgnored(ignore_fallback_fail) == FALSE
\* `if ignore_fallback_fail: return True`
IgnoreFailure(ignore_fallback_fail) == ignore_fallback_fail

handle_conditional_click ==
    /\ phase = "running" /\ stack # <<>> /\ Top.fn = "handler"
    /\ Top.step.action \in CondActions
    /\ LET step == Top.step
           mode == ModeOf(step.action)
       IN  CASE Top.pc = "start" ->
                  IF "primary_template" \notin DOMAIN step \/ "fallback_template" \notin DOMAIN step
                  THEN Return("True")
                  ELSE Call([Top EXCEPT !.pc = "probe"],
                            F_match(<<step.primary_template>>, step.primary_timeout, FALSE, 0))
             [] Top.pc = "probe" ->
                  LET has_primary == ret = "True" IN
                  IF Skips(mode, has_primary) THEN Return("True")
                  ELSE Call([Top EXCEPT !.pc = "click", !.has_primary = has_primary],
                            F_match(<<ClickTarget(mode, has_primary, step.primary_template,
                                                  step.fallback_template)>>,
                                    step.fallback_timeout, TRUE, step.click_times))
             [] Top.pc = "click" ->
                  IF ret = "True" THEN Return("True")
                  ELSE IF IgnoreFailure(step.ignore_fallback_fail) THEN Return("True")
                  ELSE Call([Top EXCEPT !.pc = "recover"], F_try_return_home)
             [] Top.pc = "recover" -> Return("False")
    /\ Dev(<<>>)
    /\ UNCHANGED <<aux, cfg, macros, tasks, stop_flag, recovRuns, attempted, history>>

LoopNeverCancelled(flag) == FALSE
\* `if stop_flag is not None and stop_flag.is_set(): return False` at the top
\* of a handler's `while True`
LoopCancelled(flag) == flag

NeverCleared(ok) == FALSE
\* `if not ok: ... break`, followed by `return True`
Cleared(ok) == ok # "True"

\* _handle_click_while_exists and _handle_click_any_while_exists.  The reading
\* of the clock against max_duration is the environment's: either outcome.
handle_click_while_exists ==
    /\ phase = "running" /\ stack # <<>> /\ Top.fn = "handler"
    /\ Top.step.action \in WhileExistsActions
    /\ LET step == Top.step
           any == step.action = "click_any_while_exists"
           total_clicks == Top.total_clicks + step.click_times
           tapped == Min(Top.tapped + Len(Taps("", step.click_times)), MaxClicks)
       IN  CASE Top.pc = "start" ->
                  IF any /\ step.templates = <<>>
                  THEN Call([Top EXCEPT !.pc = "recover"], F_try_return_home)
                  ELSE Goto([Top EXCEPT !.pc = "loop"])
             [] Top.pc = "loop" ->
                  IF LoopCancelled(stop_flag) THEN Return("False")
                  ELSE Call([Top EXCEPT !.pc = "matcher"],
                            F_match(IF any THEN step.templates ELSE <<step.template>>,
                                    step.per_timeout, TRUE, step.click_times))
             [] Top.pc = "matcher" ->
                  IF Cleared(ret) THEN Return("True")
                  ELSE IF step.max_clicks > 0 /\ total_clicks >= step.max_clicks
                  THEN Call([Top EXCEPT !.total_clicks = Min(total_clicks, MaxClicks),
                                        !.tapped = tapped,
                                        !.pc = "recover"], F_try_return_home)
                  ELSE \E late \in BOOLEAN :
                         IF step.max_duration > 0 /\ late
                         THEN Call([Top EXCEPT !.total_clicks = Min(total_clicks, MaxClicks),
                                               !.tapped = tapped,
                                               !.pc = "recover"], F_try_return_home)
                         ELSE Goto([Top EXCEPT !.total_clicks = Min(total_clicks, MaxClicks),
                                               !.tapped = tapped,
                                               !.pc = "loop"])
             [] Top.pc = "recover" -> Return("False")
    /\ Dev(<<>>)
    /\ UNCHANGED <<aux, cfg, macros, tasks, stop_flag, recovRuns, attempted, history>>

BudgetAlwaysChecked(max_wait, late) == late
\* `if max_wait > 0 and (time.time() - start_all) >= max_wait`
BudgetExceeded(max_wait, late) == max_wait > 0 /\ late

\* _handle_wait_and_click_loop.  The reading of the clock against max_wait is
\* the environment's: either outcome.
handle_wait_and_click_loop ==
    /\ phase = "running" /\ stack # <<>> /\ Top.fn = "handler"
    /\ Top.step.action = "wait_and_click_loop"
    /\ LET step == Top.step
       IN  CASE Top.pc = "start" -> Goto([Top EXCEPT !.pc = "loop"])
             [] Top.pc = "loop" ->
                  IF LoopCancelled(stop_flag) THEN Return("False")
                  ELSE Call([Top EXCEPT !.pc = "matcher"],
                            F_match(<<step.template>>, step.per_timeout, TRUE, step.click_times))
             [] Top.pc = "matcher" ->
                  IF ret = "True" THEN Return("True")
                  ELSE \E late \in BOOLEAN :
                         IF BudgetExceeded(step.max_wait, late)
                         THEN Call([Top EXCEPT !.missed = TRUE, !.pc = "recover"],
                                   F_try_return_home)
                         ELSE Goto([Top EXCEPT !.missed = TRUE, !.pc = "loop"])
             [] Top.pc = "recover" -> Return("False")
    /\ Dev(<<>>)
    /\ UNCHANGED <<aux, cfg, macros, tasks, stop_flag, recovRuns, attempted, history>>

----------------------------------------------------------------------------
\* Sequence runners.

NeverAborts(ok) == FALSE
\* `if not ok: return False`
Aborts(ok) == ok # "True"

fail_unknown(f) == Return("False")
\* the final `else` of the dispatch: a message, then `continue`
skip_unknown(f) == Goto([f EXCEPT !.i = f.i + 1])

StepsNeverCancelled(flag) == FALSE
\* `if stop_flag is not None and stop_flag.is_set(): return False` before each
\* step of _run_steps
StepsCancelled(flag) == flag

run_steps_loop ==
    /\ At("_run_steps", "loop")
    /\ LET f == Top
           step == f.steps[f.i]
       IN  IF f.i > Len(f.steps) THEN Return("True")
           ELSE IF StepsCancelled(stop_flag) THEN Return("False")
           ELSE IF IsUse(step)
           THEN IF NotSteps(macros_get(step.use_macro)) THEN Return("False")
                ELSE Call([f EXCEPT !.pc = "sub"], F_run_steps(macros_get(step.use_macro)))
           ELSE IF step.action \notin ActionHandlers THEN skip_unknown(f)
           ELSE Call([f EXCEPT !.pc = "handler"], F_handler(step))
    /\ Dev(<<>>)
    /\ UNCHANGED <<aux, cfg, macros, tasks, stop_flag, recovRuns, attempted, history>>

run_steps_resume ==
    /\ At("_run_steps", "sub") \/ At("_run_steps", "handler")
    /\ IF Aborts(ret) THEN Return("False")
       ELSE Goto([Top EXCEPT !.i = Top.i + 1, !.pc = "loop"])
    /\ Dev(<<>>)
    /\ UNCHANGED <<aux, cfg, macros, tasks, stop_flag, recovRuns, attempted, history>>

run_single_task_loop ==
    /\ At("run_single_task", "loop")
    /\ LET f == Top
           step == f.steps[f.i]
       IN  IF f.i > Len(f.steps) THEN Return("True")
           ELSE IF stop_flag THEN Return("False")
           ELSE IF IsUse(step)
           THEN IF NotSteps(macros_get(step.use_macro))
                THEN Call([f EXCEPT !.pc = "undefined"], F_try_return_home)
                ELSE Call([f EXCEPT !.pc = "sub"], F_run_steps(macros_get(step.use_macro)))
           ELSE IF step.action \notin ActionHandlers THEN skip_unknown(f)
           ELSE Call([f EXCEPT !.pc = "handler"], F_handler(step))
    /\ Dev(<<>>)
    /\ UNCHANGED <<aux, cfg, macros, tasks, stop_flag, recovRuns, attempted, history>>

run_single_task_resume ==
    /\ phase = "running" /\ stack # <<>> /\ Top.fn = "run_single_task"
    /\ Top.pc # "loop"
    /\ CASE Top.pc = "undefined" -> Return("False")
         [] Top.pc = "sub" ->
              IF Aborts(ret) THEN Call([Top EXCEPT !.pc = "sub_failed"], F_try_return_home)
              ELSE Goto([Top EXCEPT !.i = Top.i + 1, !.pc = "loop"])
         [] Top.pc = "sub_failed" -> Return("False")
         [] Top.pc = "handler" ->
              IF Aborts(ret) THEN Return("False")
              ELSE Goto([Top EXCEPT !.i = Top.i + 1, !.pc = "loop"])
    /\ Dev(<<>>)
    /\ UNCHANGED <<aux, cfg, macros, tasks, stop_flag, recovRuns, attempted, history>>

----------------------------------------------------------------------------
\* Task schedulers.

StopsAtFailure(ok) == ok = "True"
\* run_all_tasks: `if not ok: ... continue`, the loop goes on whatever the outcome
BatchContinues(ok) == TRUE

run_all_tasks_loop ==
    /\ At("run_all_tasks", "loop")
    /\ IF Top.i > Len(tasks) \/ stop_flag
       THEN Return("None") /\ UNCHANGED <<recovRuns, attempted>>
       ELSE /\ Call([Top EXCEPT !.pc = "task"], F_run_single_task(Top.i))
            /\ recovRuns' = 0
            /\ attempted' = Append(attempted, Top.i)
    /\ Dev(<<>>)
    /\ UNCHANGED <<aux, cfg, macros, tasks, stop_flag, history>>

run_all_tasks_resume ==
    /\ At("run_all_tasks", "task")
    /\ IF BatchContinues(ret)
       THEN Goto([Top EXCEPT !.i = Top.i + 1, !.pc = "loop"])
       ELSE Return("None")
    /\ history' = IF ret = "True"
                  THEN [history EXCEPT !.succeeded = @ \cup {Top.i}]
                  ELSE [history EXCEPT !.curFailed = @ \cup {Top.i}]
    /\ Dev(<<>>)
    /\ UNCHANGED <<aux, cfg, macros, tasks, stop_flag, recovRuns, attempted>>

RetriesEverything(remaining, failed) == remaining
\* `remaining = failed`
NextRemaining(remaining, failed) == failed

StopIgnored(flag) == FALSE
\* `if stop_flag is not None and stop_flag.is_set()`
StopRequested(flag) == flag

EveryRoundSucceeds(failed) == TRUE
\* `if not failed`
RoundSucceeded(failed) == failed = <<>>

GivesUpAtOnce(max_rounds, round_idx) == round_idx >= max_rounds
NeverGivesUp(max_rounds, round_idx) == FALSE
\* `if max_rounds > 0 and round_idx >= max_rounds`
GivesUp(max_rounds, round_idx) == max_rounds > 0 /\ round_idx >= max_rounds

retry_start ==
    /\ At("run_all_tasks_with_retry", "start")
    /\ IF Len(tasks) = 0
       THEN /\ Return("True")
            /\ history' = [history EXCEPT !.report = "no_tasks"]
       ELSE /\ Goto([Top EXCEPT !.remaining = [t \in 1..Len(tasks) |-> t], !.pc = "round"])
            /\ history' = [history EXCEPT !.attempts = [t \in 1..Len(tasks) |-> 0],
                                          !.last = [t \in 1..Len(tasks) |-> "-"]]
    /\ Dev(<<>>)
    /\ UNCHANGED <<aux, cfg, macros, tasks, stop_flag, recovRuns, attempted>>

retry_round ==
    /\ At("run_all_tasks_with_retry", "round")
    /\ IF StopRequested(stop_flag)
       THEN /\ Return("False")
            /\ attempted' = attempted
            /\ history' = [history EXCEPT !.report = "cancelled"]
       ELSE /\ Goto([Top EXCEPT !.failed = <<>>, !.k = 1, !.pc = "tasks"])
            /\ attempted' = <<>>
            /\ history' = [history EXCEPT !.round = Top.round_idx, !.curFailed = {}]
    /\ Dev(<<>>)
    /\ UNCHANGED <<aux, cfg, macros, tasks, stop_flag, recovRuns>>

retry_task ==
    /\ At("run_all_tasks_with_retry", "tasks")
    /\ Top.k <= Len(Top.remaining)
    /\ IF StopRequested(stop_flag)
       THEN /\ Return("False")
            /\ UNCHANGED <<recovRuns, attempted>>
            /\ history' = [history EXCEPT !.report = "cancelled"]
       ELSE /\ Call([Top EXCEPT !.pc = "task"], F_run_single_task(Top.remaining[Top.k]))
            /\ recovRuns' = 0
            /\ attempted' = Append(attempted, Top.remaining[Top.k])
            /\ history' = [history EXCEPT
                             !.attempts[Top.remaining[Top.k]] = Min(@ + 1, MaxRound + 1)]
    /\ Dev(<<>>)
    /\ UNCHANGED <<aux, cfg, macros, tasks, stop_flag>>

retry_task_resume ==
    /\ At("run_all_tasks_with_retry", "task")
    /\ LET t == Top.remaining[Top.k]
       IN  /\ Goto([Top EXCEPT !.failed = IF ret # "True" THEN Append(@, t) ELSE @,
                               !.k = Top.k + 1, !.pc = "tasks"])
           /\ history' = IF ret = "True"
                         THEN [history EXCEPT !.succeeded = @ \cup {t}, !.last[t] = "True"]
                         ELSE [history EXCEPT !.curFailed = @ \cup {t}, !.last[t] = "False"]
    /\ Dev(<<>>)
    /\ UNCHANGED <<aux, cfg, macros, tasks, stop_flag, recovRuns, attempted>>

\* The failed set of the round that ends, appended to those of the rounds before.
RoundsSoFar(failed) ==
    IF Len(history.failedSets) < MaxRound
    THEN Append(history.failedSets, {failed[j] : j \in 1..Len(failed)})
    ELSE history.failedSets

retry_round_end ==
    /\ At("run_all_tasks_with_retry", "tasks")
    /\ Top.k > Len(Top.remaining)
    /\ IF RoundSucceeded(Top.failed)
       THEN /\ Return("True")
            /\ history' = [history EXCEPT !.failedSets = RoundsSoFar(Top.failed),
                                          !.report = "all_succeeded"]
       ELSE IF GivesUp(Top.max_rounds, Top.round_idx)
       THEN /\ Return("False")
            /\ history' = [history EXCEPT !.failedSets = RoundsSoFar(Top.failed),
                                          !.report = "max_rounds_reached"]
       ELSE /\ Goto([Top EXCEPT !.remaining = NextRemaining(Top.remaining, Top.failed),
                                !.round_idx = Min(Top.round_idx + 1, MaxRound),
                                !.pc = "round"])
            /\ history' = [history EXCEPT !.failedSets = RoundsSoFar(Top.failed),
                                          !.prevAttempted = attempted,
                                          !.prevFailed = history.curFailed]
    /\ Dev(<<>>)
    /\ UNCHANGED <<aux, cfg, macros, tasks, stop_flag, recovRuns, attempted>>

----------------------------------------------------------------------------
\* run_macro_by_name, and one switch attempt of run_multi_role_pipeline:
\* run the macro and, if it did not succeed, call try_return_home.

run_macro_by_name ==
    /\ phase = "running" /\ stack # <<>> /\ Top.fn = "run_macro_by_name"
    /\ IF Top.pc = "start"
       THEN IF NotSteps(macros_get(Top.macro_name)) THEN Return("False")
            ELSE Call([Top EXCEPT !.pc = "run"], F_run_steps(macros_get(Top.macro_name)))
       ELSE Return(ret)
    /\ Dev(<<>>)
    /\ UNCHANGED <<aux, cfg, macros, tasks, stop_flag, recovRuns, attempted, history>>

switch_attempt ==
    /\ phase = "running" /\ stack # <<>> /\ Top.fn = "switch_attempt"
    /\ CASE Top.pc = "start" ->
              /\ Call([Top EXCEPT !.pc = "macro"], F_run_macro_by_name(Top.macro_name))
              /\ recovRuns' = 0
         [] Top.pc = "macro" ->
              /\ IF ret = "True" THEN Return("True")
                 ELSE Call([Top EXCEPT !.pc = "recover"], F_try_return_home)
              /\ recovRuns' = recovRuns
         [] Top.pc = "recover" -> Return("False") /\ recovRuns' = recovRuns
    /\ Dev(<<>>)
    /\ UNCHANGED <<aux, cfg, macros, tasks, stop_flag, attempted, history>>

----------------------------------------------------------------------------
Next ==
    \/ Construct
    \/ Start
    \/ Finish
    \/ Stop
    \/ matcher_poll
    \/ try_return_home_enter
    \/ try_return_home_finally
    \/ handle_wait
    \/ handle_sleep
    \/ handle_keyevent
    \/ run_steps_loop
    \/ run_steps_resume
    \/ run_single_task_loop
    \/ run_single_task_resume
    \/ run_all_tasks_loop
    \/ run_all_tasks_resume
    \/ retry_start
    \/ retry_round
    \/ retry_task
    \/ retry_task_resume
    \/ retry_round_end
    \/ run_macro_by_name
    \/ switch_attempt

Spec == Init /\ [][Next]_vars

----------------------------------------------------------------------------
\* run_all_tasks_with_retry(max_rounds=0) on its own.  The worker thread keeps
\* running whatever the GUI thread does, so its next step is eventually taken.

InitRetryForever ==
    /\ Init
    /\ cfg.call = [fn |-> "run_all_tasks_with_retry", max_rounds |-> 0, macro_name |-> ""]

Worker ==
    \/ Construct
    \/ Start
    \/ Finish
    \/ matcher_poll
    \/ try_return_home_enter
    \/ try_return_home_finally
    \/ handle_wait
    \/ handle_sleep
    \/ handle_keyevent
    \/ run_steps_loop
    \/ run_steps_resume
    \/ run_single_task_loop
    \/ run_single_task_resume
    \/ retry_start
    \/ retry_round
    \/ retry_task
    \/ retry_task_resume
    \/ retry_round_end

NextRetryForever == Worker \/ Stop

SpecRetryForever == InitRetryForever /\ [][NextRetryForever]_vars /\ WF_vars(Worker)

----------------------------------------------------------------------------
\* Tasks of one conditional click, click_while_exists or wait_and_click_loop
\* step followed by a key event, run by run_all_tasks.

ActionSteps ==
    { Cond(a, ignore) : a \in CondActions, ignore \in BOOLEAN }
    \cup { CondNoFallback }
    \cup { WhileExists(0, 0), WhileExists(2, 0), WhileExists(0, 1) }
    \cup { WhileExistsTimes(0, 2, 0), WhileExistsTimes(2, 3, 0) }
    \cup { WaitLoop(0), WaitLoop(1) }
    \cup { AnyWhileExists(<<"X", "Y">>, 0, 0), AnyWhileExists(<<"X", "Y">>, 2, 1),
           AnyWhileExists(<<>>, 0, 0) }

ActionConfigs ==
    [macros :
     { (HOME :> <<Key>>),
         (HOME :> <<Cond("wait_and_click_or", FALSE), Click>>),
         ("a" :> <<Key>>) },
     tasks : { <<Task("t1", <<step, Key>>)>> : step \in ActionSteps },
     call : { [fn |-> "run_all_tasks", max_rounds |-> 0, macro_name |-> ""] }]

InitActions == InitWith(ActionConfigs)

NextActions ==
    \/ Construct
    \/ Start
    \/ Finish
    \/ Stop
    \/ matcher_poll
    \/ try_return_home_enter
    \/ try_return_home_finally
    \/ handle_wait
    \/ handle_keyevent
    \/ handle_conditional_click
    \/ handle_click_while_exists
    \/ handle_wait_and_click_loop
    \/ run_steps_loop
    \/ run_steps_resume
    \/ run_single_task_loop
    \/ run_single_task_resume
    \/ run_all_tasks_loop
    \/ run_all_tasks_resume

SpecActions == InitActions /\ [][NextActions]_vars

----------------------------------------------------------------------------
\* The matcher's functions on their own: the arguments are drawn in the
\* initial state and one step applies the function.

MaxTemplates == 3

\* No configuration is loaded while a function is studied.
NoConfig == [macros |-> <<>>, tasks |-> <<>>, call |-> "none"]

\* Everything of the engine but the position.
engine == <<cfg, macros, tasks, in_return_home, stop_flag, stack, ret, error,
            devOps, touched, recovRuns, attempted, history>>

\* One capture of wait_and_click_any: the score of every candidate.
MaxSide == 3
RatioDenominator == 2

\* An image of w by h pixels and a region: pixel coordinates in "abs" mode,
\* ratios in "rel" mode, given as numerators over RatioDenominator.
FunctionInputs ==
    [fn : {"wait_and_click_any"},
     readings : UNION {[1..k -> Readings] : k \in 1..MaxTemplates}]
    \cup [fn : {"_apply_roi"}, w : 1..MaxSide, h : 1..MaxSide, roi_mode : {"abs"},
          roi : [1..4 -> -1..(MaxSide + 1)]]
    \cup [fn : {"_apply_roi"}, w : 1..MaxSide, h : 1..MaxSide, roi_mode : {"rel"},
          roi : [1..4 -> -1..(RatioDenominator + 1)]]

InitFunctions ==
    /\ EngineInit({NoConfig})
    /\ input \in FunctionInputs
    /\ output = NoOutput
    /\ heap = <<>>
    /\ template_cache = <<>>
    /\ lookup = <<>>
    /\ loads = <<>>
    /\ workers = <<>>
    /\ gui = <<>>

\* The body of the polling loop after a capture: (ok, hit_template_name),
\* the name given by its position in the list, 0 for None.
poll_any ==
    /\ phase = "new"
    /\ input.fn = "wait_and_click_any"
    /\ LET best == best_match(input.readings) IN
           output' = IF Hit(best, Threshold)
                     THEN [ok |-> TRUE, hit |-> best.idx]
                     ELSE [ok |-> FALSE, hit |-> 0]
    /\ phase' = "done"
    /\ UNCHANGED <<engine, input, heap, template_cache, lookup, loads, workers, gui>>

\* int(): truncation towards zero of n / d
int(n, d) == IF n >= 0 THEN n \div d ELSE -((-n) \div d)

unclamped(bound, x) == x
\* `max(0, min(w, x1))`
clamp(bound, x) ==
    LET max(a, b) == IF a >= b THEN a ELSE b
    IN  max(0, Min(bound, x))

\* _apply_roi on a given region: the box cut out of the image, the whole
\* image being the box <<0, 0, w, h>>, and the offset of the box.
apply_roi_to(w, h, roi, roi_mode) ==
    LET x1 == IF roi_mode = "rel" THEN int(roi[1] * w, RatioDenominator) ELSE roi[1]
        y1 == IF roi_mode = "rel" THEN int(roi[2] * h, RatioDenominator) ELSE roi[2]
        x2 == IF roi_mode = "rel" THEN int(roi[3] * w, RatioDenominator) ELSE roi[3]
        y2 == IF roi_mode = "rel" THEN int(roi[4] * h, RatioDenominator) ELSE roi[4]
        cx1 == clamp(w, x1)
        cx2 == clamp(w, x2)
        cy1 == clamp(h, y1)
        cy2 == clamp(h, y2)
    IN  IF cx2 <= cx1 \/ cy2 <= cy1
        THEN [region |-> <<0, 0, w, h>>, offset_x |-> 0, offset_y |-> 0]
        ELSE [region |-> <<cx1, cy1, cx2, cy2>>, offset_x |-> cx1, offset_y |-> cy1]

apply_roi ==
    /\ phase = "new"
    /\ input.fn = "_apply_roi"
    /\ output' = apply_roi_to(input.w, input.h, input.roi, input.roi_mode)
    /\ phase' = "done"
    /\ UNCHANGED <<engine, input, heap, template_cache, lookup, loads, workers, gui>>

NextFunctions ==
    \/ poll_any
    \/ apply_roi

SpecFunctions == InitFunctions /\ [][NextFunctions]_vars

----------------------------------------------------------------------------
\* Construction with the steps held by reference, as Python holds them: the
\* loaded file gives every step an object of its own, and the macro table and
\* the tasks are lists of references to these objects.

Ref(kind, name, i) == [kind |-> kind, name |-> name, i |-> i]

\* The step objects json.load creates for a configuration.
Objects(c) ==
    UNION {{Ref("macro", m, i) : i \in 1..Len(c.macros[m])} : m \in DOMAIN c.macros}
    \cup UNION {{Ref("task", c.tasks[t].name, i) : i \in 1..Len(c.tasks[t].steps)} :
                t \in 1..Len(c.tasks)}

Content(c, a) ==
    IF a.kind = "macro" THEN c.macros[a.name][a.i]
    ELSE LET t == CHOOSE t \in 1..Len(c.tasks) : c.tasks[t].name = a.name
         IN  c.tasks[t].steps[a.i]

MacroRefs(c, m) == [i \in 1..Len(c.macros[m]) |-> Ref("macro", m, i)]
TaskRefs(c, t) == [i \in 1..Len(c.tasks[t].steps) |-> Ref("task", c.tasks[t].name, i)]

\* The loop of _expand_single_task over references: `steps.extend(macro_steps)`
\* appends the table's own references, `steps.append(step)` the step's.
RECURSIVE InlineRefs(_, _, _)
InlineRefs(refs, hp, mrefs) ==
    IF refs = <<>> THEN <<>>
    ELSE LET r == Head(refs)
             rest == InlineRefs(Tail(refs), hp, mrefs)
         IN  IF IsUse(hp[r]) THEN mrefs[hp[r].use_macro] \o rest ELSE <<r>> \o rest

\* The steps a list of references shows.
View(hp, refs) == [i \in 1..Len(refs) |-> hp[refs[i]]]

AliasConfigs ==
    [macros : { ("m" :> <<Click, Key>>),
                ("m" :> <<Wait>>) @@ ("n" :> <<Key, Click>>) },
     tasks : { <<Task("t1", <<Use("m"), Wait>>), Task("t2", <<Use("m")>>), Task("t3", <<Click>>)>>,
               <<Task("t1", <<Key, Use("m")>>), Task("t2", <<Use("m"), Use("m")>>)>> },
     call : {"none"}]

InitAliasing ==
    /\ EngineInit(AliasConfigs)
    /\ AuxIdle

\* __init__ up to the expansion of the tasks.
load_config ==
    /\ phase = "new"
    /\ LET hp == [a \in Objects(cfg) |-> Content(cfg, a)]
           mrefs == [m \in DOMAIN cfg.macros |-> MacroRefs(cfg, m)]
       IN  /\ heap' = hp
           /\ macros' = mrefs
           /\ tasks' = [t \in 1..Len(cfg.tasks) |->
                           [name |-> cfg.tasks[t].name,
                            steps |-> InlineRefs(TaskRefs(cfg, t), hp, mrefs)]]
    /\ phase' = "ready"
    /\ UNCHANGED <<cfg, in_return_home, stop_flag, stack, ret, error, devOps, touched,
                   recovRuns, attempted, history, input, output, template_cache,
                   lookup, loads, workers, gui>>

StepValues == {Click, Key, Wait}

\* A write to a step of an expanded task, self.tasks[task]["steps"][index].
mutate_step ==
    /\ phase = "ready"
    /\ \E t \in 1..Len(tasks) : \E i \in 1..Len(tasks[t].steps) : \E v \in StepValues :
          /\ heap[tasks[t].steps[i]] # v
          /\ heap' = [heap EXCEPT ![tasks[t].steps[i]] = v]
          /\ input' = [fn |-> "mutate_step", task |-> t, index |-> i]
    /\ UNCHANGED <<engine, phase, output, template_cache, lookup, loads, workers, gui>>

NextAliasing ==
    \/ load_config
    \/ mutate_step

SpecAliasing == InitAliasing /\ [][NextAliasing]_vars

----------------------------------------------------------------------------
\* The pattern cache of one matcher, used by the thread that owns the engine.

MaxLoads == 3

Keys == {"X", "Y", "Z"}

\* Which pattern files cv2.imread can read.
CacheInputs == [fn : {"_get_gray_template"}, readable : SUBSET Keys]

Idle == [pc |-> "idle", key |-> ""]

InitCache ==
    /\ EngineInit({NoConfig})
    /\ input \in CacheInputs
    /\ output = [k \in Keys |-> NoOutput]
    /\ heap = <<>>
    /\ template_cache = <<>>
    /\ lookup = Idle
    /\ loads = [k \in Keys |-> 0]
    /\ workers = <<>>
    /\ gui = <<>>

\* `cached = self._template_cache.get(template_path)`, and the return of the
\* cached pattern if there is one.
get_gray_template_check ==
    /\ lookup.pc = "idle"
    /\ \E k \in Keys :
          IF k \in DOMAIN template_cache
          THEN /\ output' = [output EXCEPT ![k] = template_cache[k]]
               /\ UNCHANGED lookup
          ELSE /\ lookup' = [pc |-> "read", key |-> k]
               /\ UNCHANGED output
    /\ UNCHANGED <<engine, phase, input, heap, template_cache, loads, workers, gui>>

\* `template = cv2.imread(template_path)`, and the return of None if the
\* file could not be read.
get_gray_template_read ==
    /\ lookup.pc = "read"
    /\ loads' = [loads EXCEPT ![lookup.key] = Min(@ + 1, MaxLoads)]
    /\ IF lookup.key \in input.readable
       THEN /\ lookup' = [lookup EXCEPT !.pc = "store"]
            /\ UNCHANGED output
       ELSE /\ lookup' = Idle
            /\ output' = [output EXCEPT ![lookup.key] = "None"]
    /\ UNCHANGED <<engine, phase, input, heap, template_cache, workers, gui>>

\* `self._template_cache[template_path] = gray_template`, and the return.
get_gray_template_store ==
    /\ lookup.pc = "store"
    /\ template_cache' = [k \in DOMAIN template_cache \cup {lookup.key} |->
                             IF k = lookup.key THEN "gray" ELSE template_cache[k]]
    /\ output' = [output EXCEPT ![lookup.key] = "gray"]
    /\ lookup' = Idle
    /\ UNCHANGED <<engine, phase, input, heap, loads, workers, gui>>

NextCache ==
    \/ get_gray_template_check
    \/ get_gray_template_read
    \/ get_gray_template_store

SpecCache == InitCache /\ [][NextCache]_vars

----------------------------------------------------------------------------
\* run_daily_pipeline: the configurations of CONFIG_FLOW, one engine each.

\* The string literals between the brackets of CONFIG_FLOW, each with whether
\* a comma follows it.
ConfigLiterals ==
    << [text |-> "configs/config_Persondaily.json", comma |-> TRUE],
       [text |-> "configs/config_Teamdaily.json", comma |-> TRUE],
       [text |-> "configs/config_Mail.json", comma |-> FALSE],
       [text |-> "configs/config_roles.json", comma |-> TRUE] >>

\* A list display: adjacent literals with no comma between them are one
\* string, their concatenation.
RECURSIVE ListDisplay(_, _)
ListDisplay(literals, pending) ==
    IF literals = <<>> THEN (IF pending = "" THEN <<>> ELSE <<pending>>)
    ELSE LET text == pending \o Head(literals).text
         IN  IF Head(literals).comma
             THEN <<text>> \o ListDisplay(Tail(literals), "")
             ELSE ListDisplay(Tail(literals), text)

CONFIG_FLOW == ListDisplay(ConfigLiterals, "")

\* The configuration files that exist, one per literal.
ConfigFiles == {ConfigLiterals[n].text : n \in 1..Len(ConfigLiterals)}
\* `max_rounds=1`
PipelineMaxRounds == 1

PipelineCall == [fn |-> "run_all_tasks_with_retry", max_rounds |-> PipelineMaxRounds, macro_name |-> ""]

\* What a path of the flow may hold: a task that can fail, two tasks, and a
\* configuration the constructor rejects.
PipelineConfigs ==
    { [macros |-> (HOME :> <<Key>>), tasks |-> <<Task("t1", <<Click>>)>>, call |-> PipelineCall],
      [macros |-> (HOME :> <<Key>>), tasks |-> <<Task("t1", <<Wait>>), Task("t2", <<Key>>)>>,
       call |-> PipelineCall],
      [macros |-> ("a" :> <<Key>>), tasks |-> <<Task("t1", <<Use("ghost")>>)>>, call |-> PipelineCall] }

\* What open() finds at a path that names no file.
Missing == [macros |-> <<>>, tasks |-> <<>>,
            call |-> [fn |-> "missing", max_rounds |-> 0, macro_name |-> ""]]

\* The contents found at the paths of CONFIG_FLOW, in order.
Flows ==
    {flow \in [1..Len(CONFIG_FLOW) -> PipelineConfigs \cup {Missing}] :
        \A n \in 1..Len(CONFIG_FLOW) : flow[n] = Missing <=> CONFIG_FLOW[n] \notin ConfigFiles}

\* opened: the paths handed to DungeonAutomation so far.
F_run_daily_pipeline(flow) ==
    [fn |-> "run_daily_pipeline", pc |-> "loop", flow |-> flow, i |-> 1, opened |-> <<>>]

InitPipeline ==
    /\ cfg = NoConfig
    /\ phase = "running"
    /\ macros = <<>>
    /\ tasks = <<>>
    /\ in_return_home = FALSE
    /\ stop_flag = FALSE
    /\ stack \in {<<F_run_daily_pipeline(flow)>> : flow \in Flows}
    /\ ret = "-"
    /\ error = ""
    /\ devOps = <<>>
    /\ touched = FALSE
    /\ recovRuns = 0
    /\ attempted = <<>>
    /\ history = NoHistory
    /\ AuxIdle

\* The head of the loop and the first statements of the try block: the stop
\* check, DungeonAutomation(cfg) and the call of try_return_home.  An
\* exception of the constructor is logged and the loop goes on.
pipeline_loop ==
    /\ At("run_daily_pipeline", "loop")
    /\ LET f == Top IN
       IF f.i > Len(f.flow) \/ stop_flag
       THEN /\ Return("None")
            /\ UNCHANGED <<cfg, macros, tasks, recovRuns, attempted, history>>
       ELSE LET c == f.flow[f.i]
                e == expand_tasks_with_macros(c.tasks, c.macros)
            IN  /\ cfg' = c
                /\ macros' = c.macros
                /\ recovRuns' = 0
                /\ attempted' = <<>>
                /\ history' = NoHistory
                /\ IF c = Missing \/ e.raised
                   THEN /\ Goto([f EXCEPT !.i = f.i + 1,
                                         !.opened = Append(f.opened, CONFIG_FLOW[f.i])])
                        /\ tasks' = tasks
                   ELSE /\ CallWith([f EXCEPT !.pc = "home",
                                             !.opened = Append(f.opened, CONFIG_FLOW[f.i])],
                                    F_try_return_home, FALSE)
                        /\ tasks' = e.tasks
    /\ Dev(<<>>)
    /\ UNCHANGED <<aux, stop_flag>>

\* `auto.run_all_tasks_with_retry(..., max_rounds=1)`
pipeline_retry ==
    /\ At("run_daily_pipeline", "home")
    /\ Call([Top EXCEPT !.pc = "retry"], F_retry(PipelineMaxRounds))
    /\ Dev(<<>>)
    /\ UNCHANGED <<aux, cfg, macros, tasks, stop_flag, recovRuns, attempted, history>>

\* The scheduler has returned; its result is dropped and the loop goes on.
pipeline_next ==
    /\ At("run_daily_pipeline", "retry")
    /\ Goto([Top EXCEPT !.i = Top.i + 1, !.pc = "loop"])
    /\ Dev(<<>>)
    /\ UNCHANGED <<aux, cfg, macros, tasks, stop_flag, recovRuns, attempted, history>>

NextPipeline ==
    \/ pipeline_loop
    \/ pipeline_retry
    \/ pipeline_next
    \/ Finish
    \/ Stop
    \/ matcher_poll
    \/ try_return_home_enter
    \/ try_return_home_finally
    \/ handle_wait
    \/ handle_keyevent
    \/ run_steps_loop
    \/ run_steps_resume
    \/ run_single_task_loop
    \/ run_single_task_resume
    \/ retry_start
    \/ retry_round
    \/ retry_task
    \/ retry_task_resume
    \/ retry_round_end

SpecPipeline == InitPipeline /\ [][NextPipeline]_vars

----------------------------------------------------------------------------
\* run_multi_role_pipeline: the roles of ROLES in turn, the switch macros run
\* on the engine built from ROLE_CONFIG, the daily pipeline on engines of its
\* own.  While the pipeline runs, macros and tasks are those of the engine
\* whose method is running.

SWITCH_MAX_RETRY == 2

\* The switch_macro of every role.
ROLES == <<"switch_role_1", "switch_role_2", "switch_role_3", "switch_role_4", "switch_role_5">>

NoCall == [fn |-> "none", max_rounds |-> 0, macro_name |-> ""]

\* What ROLE_CONFIG may hold: every switch macro a tap on a pattern; some
\* switch macros not defined or empty and no recovery macro; no file.
RoleConfigs ==
    { [macros |-> [m \in {HOME} \cup {ROLES[n] : n \in 2..Len(ROLES)} |->
                      IF m = HOME THEN <<Key>> ELSE <<Click>>],
       tasks |-> <<>>, call |-> NoCall],
      [macros |-> ("switch_role_2" :> <<Click>>) @@ ("switch_role_4" :> <<>>)
                  @@ ("switch_role_5" :> <<Wait, Key>>),
       tasks |-> <<>>, call |-> NoCall],
      Missing }

\* The daily configurations as every role finds them.
F_run_multi_role_pipeline(flow) ==
    [fn |-> "run_multi_role_pipeline", pc |-> "init", flow |-> flow, idx |-> 1, attempt |-> 1,
     role_macros |-> <<>>, role_tasks |-> <<>>]

InitMultiRole ==
    /\ cfg \in RoleConfigs
    /\ phase = "running"
    /\ macros = <<>>
    /\ tasks = <<>>
    /\ in_return_home = FALSE
    /\ stop_flag = FALSE
    /\ stack \in {<<F_run_multi_role_pipeline(flow)>> : flow \in
           {fl \in Flows : \A n \in 1..Len(fl) :
                fl[n] # Missing => fl[n].tasks = <<Task("t1", <<Click>>)>>}}
    /\ ret = "-"
    /\ error = ""
    /\ devOps = <<>>
    /\ touched = FALSE
    /\ recovRuns = 0
    /\ attempted = <<>>
    /\ history = NoHistory
    /\ AuxIdle

\* `role_auto = DungeonAutomation(ROLE_CONFIG)` in its try block.
multi_role_init ==
    /\ At("run_multi_role_pipeline", "init")
    /\ LET e == expand_tasks_with_macros(cfg.tasks, cfg.macros) IN
       IF cfg = Missing \/ e.raised
       THEN /\ Return("None")
            /\ UNCHANGED <<macros, tasks>>
       ELSE /\ Goto([Top EXCEPT !.pc = "roles", !.role_macros = cfg.macros,
                                !.role_tasks = e.tasks])
            /\ macros' = cfg.macros
            /\ tasks' = e.tasks
    /\ Dev(<<>>)
    /\ UNCHANGED <<aux, cfg, stop_flag, recovRuns, attempted, history>>

\* The head of the loop over ROLES, and the first role's branch.
multi_role_next ==
    /\ At("run_multi_role_pipeline", "roles")
    /\ IF Top.idx > Len(ROLES) \/ stop_flag THEN Return("None")
       ELSE IF Top.idx = 1
       THEN Call([Top EXCEPT !.pc = "daily"], F_run_daily_pipeline(Top.flow))
       ELSE Goto([Top EXCEPT !.pc = "attempt", !.attempt = 1])
    /\ Dev(<<>>)
    /\ UNCHANGED <<aux, cfg, macros, tasks, stop_flag, recovRuns, attempted, history>>

RunsDailyAnyway(ok) == TRUE
\* `if ok: ... switched = True; break`
Switched(ok) == ok = "True"

\* The head of the loop over the attempts: the loop ends with switched unset
\* (the role is skipped), the stop check returns, or the attempt is made:
\* run_macro_by_name on role_auto and, if it failed, try_return_home.
multi_role_attempt ==
    /\ At("run_multi_role_pipeline", "attempt")
    /\ IF Top.attempt > SWITCH_MAX_RETRY
       THEN /\ Goto([Top EXCEPT !.pc = "roles", !.idx = Top.idx + 1])
            /\ UNCHANGED <<macros, tasks>>
       ELSE IF stop_flag
       THEN /\ Return("None")
            /\ UNCHANGED <<macros, tasks>>
       ELSE /\ Call([Top EXCEPT !.pc = "switching"], F_switch(ROLES[Top.idx]))
            /\ macros' = Top.role_macros
            /\ tasks' = Top.role_tasks
    /\ Dev(<<>>)
    /\ UNCHANGED <<aux, cfg, stop_flag, recovRuns, attempted, history>>

\* After an attempt: the daily pipeline if the switch succeeded, else the
\* next attempt.
multi_role_switched ==
    /\ At("run_multi_role_pipeline", "switching")
    /\ IF Switched(ret)
       THEN Call([Top EXCEPT !.pc = "daily"], F_run_daily_pipeline(Top.flow))
       ELSE Goto([Top EXCEPT !.pc = "attempt", !.attempt = Top.attempt + 1])
    /\ Dev(<<>>)
    /\ UNCHANGED <<aux, cfg, macros, tasks, stop_flag, recovRuns, attempted, history>>

\* run_daily_pipeline has returned.
multi_role_daily_done ==
    /\ At("run_multi_role_pipeline", "daily")
    /\ Goto([Top EXCEPT !.pc = "roles", !.idx = Top.idx + 1])
    /\ Dev(<<>>)
    /\ UNCHANGED <<aux, cfg, macros, tasks, stop_flag, recovRuns, attempted, history>>

NextMultiRole ==
    \/ multi_role_init
    \/ multi_role_next
    \/ multi_role_attempt
    \/ multi_role_switched
    \/ multi_role_daily_done
    \/ switch_attempt
    \/ run_macro_by_name
    \/ pipeline_loop
    \/ pipeline_retry
    \/ pipeline_next
    \/ Finish
    \/ Stop
    \/ matcher_poll
    \/ try_return_home_enter
    \/ try_return_home_finally
    \/ handle_wait
    \/ handle_keyevent
    \/ run_steps_loop
    \/ run_steps_resume
    \/ run_single_task_loop
    \/ run_single_task_resume
    \/ retry_start
    \/ retry_round
    \/ retry_task
    \/ retry_task_resume
    \/ retry_round_end

SpecMultiRole == InitMultiRole /\ [][NextMultiRole]_vars

----------------------------------------------------------------------------
\* The GUI and its workers.  start_tasks and stop_tasks are callbacks of the
\* one Tk main loop, so one runs to its end before the next begins; the worker
\* threads run beside them.  What a worker does between its start and the
\* return of run is left open here: it returns at some point or never.

MaxWorkers == 3

Modes == {"multi_role", "pipeline", "single"}

\* DungeonWorker.__init__: a thread not yet started, its stop_event clear.
NewWorker(mode) == [state |-> "initial", stop_event |-> FALSE, mode |-> mode]

GuiIdle(worker) == [pc |-> "idle", worker |-> worker]

InitGui ==
    /\ EngineInit({NoConfig})
    /\ input = <<>>
    /\ output = NoOutput
    /\ heap = <<>>
    /\ template_cache = <<>>
    /\ lookup = <<>>
    /\ loads = <<>>
    /\ workers = <<>>
    /\ gui = GuiIdle(0)

NeverRunning(worker) == FALSE
\* `self.worker is not None and self.worker.is_alive()`
StillRunning(worker) == worker # 0 /\ workers[worker].state = "alive"

\* start_tasks up to the construction of the worker.
start_tasks ==
    /\ gui.pc = "idle"
    /\ IF StillRunning(gui.worker)
       THEN UNCHANGED <<workers, gui>>
       ELSE /\ Len(workers) < MaxWorkers
            /\ \E mode \in Modes :
                  /\ workers' = Append(workers, NewWorker(mode))
                  /\ gui' = [pc |-> "start", worker |-> Len(workers) + 1]
    /\ UNCHANGED <<engine, phase, input, output, heap, template_cache, lookup, loads>>

\* `self.worker.start()`
worker_start ==
    /\ gui.pc = "start"
    /\ workers' = [workers EXCEPT ![gui.worker].state = "alive"]
    /\ gui' = GuiIdle(gui.worker)
    /\ UNCHANGED <<engine, phase, input, output, heap, template_cache, lookup, loads>>

\* stop_tasks up to the call of stop.
stop_tasks ==
    /\ gui.pc = "idle"
    /\ IF StillRunning(gui.worker)
       THEN gui' = [gui EXCEPT !.pc = "stop"]
       ELSE gui' = gui
    /\ UNCHANGED <<engine, phase, input, output, heap, template_cache, lookup, loads, workers>>

\* DungeonWorker.stop: `self.stop_event.set()`
worker_stop ==
    /\ gui.pc = "stop"
    /\ workers' = [workers EXCEPT ![gui.worker].stop_event = TRUE]
    /\ gui' = GuiIdle(gui.worker)
    /\ UNCHANGED <<engine, phase, input, output, heap, template_cache, lookup, loads>>

\* DungeonWorker.run returns, normally or through its `except Exception`.
worker_run_returns ==
    /\ \E w \in 1..Len(workers) :
          /\ workers[w].state = "alive"
          /\ workers' = [workers EXCEPT ![w].state = "dead"]
    /\ UNCHANGED <<engine, phase, input, output, heap, template_cache, lookup, loads, gui>>

NextGui ==
    \/ start_tasks
    \/ worker_start
    \/ stop_tasks
    \/ worker_stop
    \/ worker_run_returns

SpecGui == InitGui /\ [][NextGui]_vars

----------------------------------------------------------------------------
\* The worker in each of its modes, and the engine's entry points, on
\* configurations whose loops have no bound of their own; the worker thread
\* is scheduled as long as it has a step to take.

InitCancel ==
    \/ InitWith(
       [macros : { (HOME :> <<Key>>), (HOME :> <<WaitLoop(0)>>) },
        tasks : { <<Task("t1", <<WaitLoop(0)>>), Task("t2", <<Sleep>>)>>,
                  <<Task("t1", <<WhileExists(0, 0)>>)>>,
                  <<Task("t1", <<Click>>)>> },
        call : { [fn |-> "run_all_tasks", max_rounds |-> 0, macro_name |-> ""],
                 [fn |-> "run_all_tasks_with_retry", max_rounds |-> 0, macro_name |-> ""] }])
    \/ InitPipeline
    \/ InitMultiRole

WorkerThread ==
    \/ Construct
    \/ Start
    \/ Finish
    \/ matcher_poll
    \/ try_return_home_enter
    \/ try_return_home_finally
    \/ handle_wait
    \/ handle_sleep
    \/ handle_keyevent
    \/ handle_click_while_exists
    \/ handle_wait_and_click_loop
    \/ run_steps_loop
    \/ run_steps_resume
    \/ run_single_task_loop
    \/ run_single_task_resume
    \/ run_all_tasks_loop
    \/ run_all_tasks_resume
    \/ retry_start
    \/ retry_round
    \/ retry_task
    \/ retry_task_resume
    \/ retry_round_end
    \/ run_macro_by_name
    \/ switch_attempt
    \/ pipeline_loop
    \/ pipeline_retry
    \/ pipeline_next
    \/ multi_role_init
    \/ multi_role_next
    \/ multi_role_attempt
    \/ multi_role_switched
    \/ multi_role_daily_done

NextCancel == WorkerThread \/ Stop

SpecCancel == InitCancel /\ [][NextCancel]_vars /\ WF_vars(WorkerThread)

----------------------------------------------------------------------------
\* Properties.

Range(seq) == {seq[j] : j \in 1..Len(seq)}
SeqFrame(f) == f.fn \in {"_run_steps", "run_single_task"}
HomeConfigured == HOME \in DOMAIN macros /\ macros[HOME] # <<>>
ActiveRecoveries == {d \in 1..Len(stack) : stack[d].fn = "try_return_home" /\ stack[d].pc = "run"}

\* C1: whenever a top-level task step references a macro name that is absent
\* from the macro table, construction fails with the undefined-macro error,
\* and no tap, key event or screen capture has been issued by then.
C1_UndefinedMacroFailsConstruction ==
    (/\ phase # "new"
     /\ \E t \in 1..Len(cfg.tasks) : \E j \in 1..Len(cfg.tasks[t].steps) :
            /\ "use_macro" \in DOMAIN cfg.tasks[t].steps[j]
            /\ cfg.tasks[t].steps[j].use_macro \notin DOMAIN cfg.macros)
    => (phase = "init_failed" /\ error = "ValueError" /\ ~touched /\ stack = <<>>)

C1_Witness == phase = "init_failed" /\ error = "ValueError"

\* C2: a macro that directly references itself is rejected instead of being
\* run inside itself: its body is never active twice on the call stack.
C2_SelfReferenceRejected ==
    \A m \in DOMAIN macros :
        (\E j \in 1..Len(macros[m]) : IsUse(macros[m][j]) /\ macros[m][j].use_macro = m)
        => Cardinality({d \in 1..Len(stack) :
                           stack[d].fn = "_run_steps" /\ stack[d].steps = macros[m]}) <= 1

\* C3: when a task attempt, or a switch attempt followed by the caller's
\* try_return_home, has ended in a step failure (no cancellation), the
\* recovery macro has been run exactly once for it.
C3_RecoveryExactlyOncePerFailure ==
    (/\ phase = "running" /\ stack # <<>>
     /\ ~stop_flag
     /\ HomeConfigured
     /\ \/ Top.fn \in {"run_all_tasks", "run_all_tasks_with_retry"} /\ Top.pc = "task" /\ ret = "False"
        \/ Top.fn = "switch_attempt" /\ Top.pc = "recover" /\ ret = "None")
    => recovRuns = 1

\* C4: at most one execution of the recovery macro is active; a try_return_home
\* call made while one is active starts no second one.
C4_RecoveryNeverReentered ==
    /\ [](Cardinality(ActiveRecoveries) <= 1)
    /\ [][ (At("try_return_home", "start") /\ ActiveRecoveries # {} /\ stack' # stack)
           => (stack' = Below /\ ret' = "None" /\ devOps' = <<>>
               /\ recovRuns' = recovRuns /\ in_return_home' = in_return_home) ]_vars

C4_Witness ==
    /\ At("try_return_home", "start")
    /\ in_return_home
    /\ Cardinality(ActiveRecoveries) = 1

\* C5: the guard _in_return_home is set exactly while a run of the recovery
\* macro is in progress: set before its steps run, and back to its former
\* value (unset) once try_return_home has returned or an exception has left it.
C5_GuardScopedToRecovery == in_return_home <=> (ActiveRecoveries # {})

C5_Witness ==
    /\ phase = "crashed" /\ error = "RecursionError"
    /\ cfg.call.fn = "run_all_tasks" /\ cfg.tasks # <<>> /\ cfg.tasks[1].steps = <<Click>>
    /\ recovRuns = 1
    /\ ~in_return_home

\* C6: try_return_home returns normally whatever happens: with no recovery
\* macro it returns without any device operation, and when the recovery steps
\* succeed, fail or are cancelled it returns None and leaves its caller's frame
\* as it was.
C6_RecoveryIsBestEffort ==
    [][ /\ (At("try_return_home", "start") /\ HOME \notin DOMAIN macros /\ stack' # stack)
           => (/\ stack' = Below /\ ret' = "None" /\ phase' = phase /\ error' = error
               /\ devOps' = <<>> /\ touched' = touched)
        /\ (At("try_return_home", "run") /\ stack' # stack)
           => (stack' = Below /\ ret' = "None" /\ phase' = phase /\ error' = error)
      ]_vars

C6_Witness ==
    /\ phase = "running" /\ stack # <<>>
    /\ Top.fn = "handler" /\ Top.pc = "recover"
    /\ ret = "None" /\ recovRuns >= 1 /\ devOps = <<>>

\* C7: a sequence (_run_steps, run_single_task) advances one step at a time and
\* only past a step that succeeded (or an unknown action it skips); after an
\* outcome that is not success it runs no further step and returns False.
C7_StopsAtFirstFailure ==
    [][ \A d \in 1..Len(stack) :
          LET f == stack[d] IN
          (SeqFrame(f) /\ stack' # stack) =>
            /\ (d <= Len(stack') /\ stack'[d].i # f.i)
               => /\ d = Len(stack)
                  /\ stack'[d].i = f.i + 1
                  /\ \/ f.pc \in {"sub", "handler"} /\ ret = "True"
                     \/ f.pc = "loop" /\ ~IsUse(f.steps[f.i])
                        /\ f.steps[f.i].action \notin ActionHandlers
            /\ (d = Len(stack) /\ f.pc \in {"sub", "handler"} /\ ret # "True")
               => \/ stack' = Below /\ ret' = "False"
                  \/ Len(stack') = d + 1 /\ stack'[d] = [f EXCEPT !.pc = "sub_failed"]
                  \/ phase' = "crashed"
            /\ (d = Len(stack) /\ f.pc \in {"sub_failed", "undefined"})
               => (stack' = Below /\ ret' = "False")
      ]_vars

C7_Witness ==
    /\ phase = "running" /\ stack # <<>>
    /\ SeqFrame(Top) /\ Top.pc = "handler" /\ ret = "False"
    /\ Top.i < Len(Top.steps)

\* C8: a macro-reference step whose macro is absent from the table makes the
\* sequence fail; every reference to a macro of the table makes the runner
\* execute that macro's steps.
C8_DefinedMacroIsExecuted ==
    [][ (/\ phase = "running" /\ stack # <<>> /\ SeqFrame(Top) /\ Top.pc = "loop"
         /\ Top.i <= Len(Top.steps) /\ ~stop_flag /\ stack' # stack
         /\ IsUse(Top.steps[Top.i]))
        => LET m == Top.steps[Top.i].use_macro IN
           IF m \notin DOMAIN macros
           THEN \/ stack' = Below /\ ret' = "False"
                \/ /\ Top.fn = "run_single_task"
                   /\ stack' = Append(Append(Below, [Top EXCEPT !.pc = "undefined"]),
                                      F_try_return_home)
           ELSE \/ stack' = Append(Append(Below, [Top EXCEPT !.pc = "sub"]),
                                   F_run_steps(macros[m]))
                \/ phase' = "crashed"
      ]_vars

\* C9: run_all_tasks starts the tasks in configured order, each once; a failed
\* task does not end the batch, so a run that ends without cancellation has
\* started every task; once the flag is seen set between two tasks no further
\* task is started.
C9_BatchRunsEveryTaskInOrder ==
    /\ [](cfg.call.fn = "run_all_tasks" =>
            /\ \A j \in 1..Len(attempted) : attempted[j] = j
            /\ (phase = "done" /\ ~stop_flag) => Len(attempted) = Len(tasks))
    /\ [][ (At("run_all_tasks", "loop") /\ stop_flag)
           => (attempted' = attempted /\ stack' = Below) ]_vars

C9_Witness ==
    /\ cfg.call.fn = "run_all_tasks"
    /\ phase = "done" /\ ~stop_flag
    /\ 1 \in history.curFailed
    /\ attempted = <<1, 2, 3>>

InRetry == phase = "running" /\ stack # <<>> /\ stack[1].fn = "run_all_tasks_with_retry"

\* C10: round 1 works on every task; a later round works on exactly the tasks
\* whose attempt failed in the round before, in their original order; the
\* attempts of a round follow that list; no task that has succeeded is
\* attempted again; every attempt starts at the task's first step.
C10_RetryRoundsShrink ==
    /\ [](InRetry /\ stack[1].pc # "start" =>
            LET R == stack[1] IN
            /\ R.round_idx = 1 => R.remaining = [t \in 1..Len(tasks) |-> t]
            /\ R.round_idx > 1 =>
                 /\ R.remaining = SelectSeq(history.prevAttempted,
                                            LAMBDA t : t \in history.prevFailed)
                 /\ Range(R.remaining) \subseteq Range(history.prevAttempted)
            /\ R.pc \in {"tasks", "task"} =>
                 /\ Len(attempted) <= Len(R.remaining)
                 /\ attempted = SubSeq(R.remaining, 1, Len(attempted))
                 /\ \A j \in R.k..Len(R.remaining) : R.remaining[j] \notin history.succeeded
            /\ R.pc = "round" => Range(R.remaining) \cap history.succeeded = {})
    /\ [][ (InRetry /\ Len(stack) = 1 /\ Len(stack') = 2)
           => (/\ stack'[2].fn = "run_single_task"
               /\ stack'[2].i = 1
               /\ stack'[2].steps = tasks[stack[1].remaining[stack[1].k]].steps) ]_vars

C10_Witness ==
    /\ InRetry
    /\ stack[1].round_idx = 3 /\ stack[1].remaining = <<3>>
    /\ history.succeeded = {1, 2}

RetryCalled == cfg.call.fn = "run_all_tasks_with_retry" /\ phase \in {"running", "done"}
RetryReturned(v) == RetryCalled /\ stack = <<>> /\ ret = v
RetryAlone == InRetry /\ Len(stack) = 1
RoundEnd == RetryAlone /\ Top.pc = "tasks" /\ Top.k > Len(Top.remaining)

\* C11: run_all_tasks_with_retry returns True only at the end of a round whose
\* failed set is empty (or at once when no task is configured), such a round end
\* returns True without starting another round, and when True has been
\* returned every configured task has succeeded in its last attempt.
C11_TrueExactlyAtCleanRoundEnd ==
    /\ [][ (RetryAlone /\ stack' = <<>>)
           => (ret' = "True" <=> ((RoundEnd /\ Top.failed = <<>>)
                                  \/ (Top.pc = "start" /\ Len(tasks) = 0))) ]_vars
    /\ [][ (RoundEnd /\ Top.failed = <<>> /\ stack' # stack)
           => (stack' = <<>> /\ ret' = "True" /\ attempted' = attempted
               /\ history'.round = history.round) ]_vars
    /\ [](RetryReturned("True") =>
            /\ history.curFailed = {}
            /\ \A t \in 1..Len(tasks) :
                 /\ t \in history.succeeded
                 /\ history.attempts[t] >= 1
                 /\ history.last[t] = "True")

C11_Witness ==
    /\ RetryReturned("True")
    /\ Len(tasks) = 3
    /\ history.failedSets = <<{2, 3}, {}>>
    /\ history.report = "all_succeeded"

\* C12: with max_rounds > 0 there are at most max_rounds rounds and no task is
\* attempted more than max_rounds times; a round with index >= max_rounds that
\* ends with failures returns False at once; and with max_rounds = 3, when the
\* failed sets of the three rounds are {T2,T3}, {T3}, {T3}, the call has
\* returned False and reported T3 as still failing.
C12_AtMostMaxRounds ==
    /\ []((RetryCalled /\ cfg.call.max_rounds > 0) =>
            /\ history.round <= cfg.call.max_rounds
            /\ Len(history.failedSets) <= cfg.call.max_rounds
            /\ \A t \in 1..Len(history.attempts) : history.attempts[t] <= cfg.call.max_rounds
            /\ (stack # <<>> /\ stack[1].pc # "start") => stack[1].round_idx <= cfg.call.max_rounds)
    /\ [][ (/\ RoundEnd /\ Top.failed # <<>>
            /\ Top.max_rounds > 0 /\ Top.round_idx >= Top.max_rounds
            /\ stack' # stack)
           => (stack' = <<>> /\ ret' = "False" /\ attempted' = attempted
               /\ history'.report = "max_rounds_reached") ]_vars
    /\ []((/\ RetryCalled /\ cfg.call.max_rounds = 3
           /\ history.failedSets = <<{2, 3}, {3}, {3}>>)
          => (/\ stack = <<>> /\ ret = "False"
              /\ history.curFailed = {3}
              /\ history.succeeded = {1, 2}
              /\ history.report = "max_rounds_reached"))

C12_Witness ==
    /\ RetryReturned("False")
    /\ cfg.call.max_rounds = 3
    /\ ~stop_flag
    /\ history.failedSets = <<{2, 3}, {3}, {3}>>
    /\ history.attempts = <<1, 2, 3>>

NoTaskFails == ~(RetryAlone /\ Top.pc = "task" /\ ret # "True")

\* C13: with max_rounds = 0, run_all_tasks_with_retry returns False only on
\* cancellation; a round that ends with failures is followed by the top of a
\* new round over exactly those failures; and when the flag is never set and
\* from some round on no attempt fails, the call eventually returns True with
\* an empty failed set (unless an exception has ended construction or the run).
C13_UnboundedRetryUntilSuccess ==
    /\ [][ (RetryAlone /\ stack' = <<>> /\ ret' = "False")
           => (stop_flag /\ history'.report = "cancelled") ]_vars
    /\ [][ (RoundEnd /\ Top.failed # <<>> /\ stack' # stack)
           => (/\ Len(stack') = 1
               /\ stack'[1].pc = "round"
               /\ stack'[1].remaining = Top.failed) ]_vars
    /\ (([]~stop_flag /\ <>[]NoTaskFails)
        => <>((RetryReturned("True") /\ history.curFailed = {}) \/ error # ""))

C13_Witness ==
    /\ RetryReturned("True")
    /\ cfg.call.max_rounds = 0
    /\ ~stop_flag
    /\ Len(tasks) = 3
    /\ history.attempts[3] > MaxRound
    /\ history.report = "all_succeeded"

\* C14: in run_all_tasks_with_retry, a task is started and a round is begun
\* only with the cancellation flag unset; when the flag is set at the top of a
\* round or before a task of the round, the call returns False there, having
\* started no further task and no further round.
C14_CancellationEndsRetry ==
    [][ /\ (/\ RetryAlone /\ stop_flag /\ stack' # stack
            /\ (Top.pc = "round" \/ (Top.pc = "tasks" /\ Top.k <= Len(Top.remaining))))
           => (/\ stack' = <<>> /\ ret' = "False"
               /\ attempted' = attempted /\ history'.round = history.round
               /\ history'.attempts = history.attempts)
        /\ (/\ RetryAlone
            /\ (Len(stack') = 2
                \/ (Top.pc = "round" /\ Len(stack') = 1 /\ stack'[1].pc = "tasks")))
           => ~stop_flag
      ]_vars

C14_Witness ==
    /\ RetryReturned("False")
    /\ stop_flag
    /\ history.report = "cancelled"
    /\ history.round = 1
    /\ Len(attempted) = 1 /\ Len(tasks) = 3

\* C15: once the cancellation flag is set, a polling action that is running
\* issues no further screen capture and no tap, and its next step returns a
\* failed (cancelled) outcome.
C15_PollingStopsWhenCancelled ==
    [][ (At("matcher", "poll") /\ stop_flag /\ stack' # stack)
        => (devOps' = <<>> /\ stack' = Below /\ ret' = "False") ]_vars

\* C16: a run of run_all_tasks_with_retry that has begun a round and during
\* which the cancellation flag was set before the call returned is reported as
\* cancelled, never as all tasks succeeded and never as maximum rounds reached.
C16_CancelledReportHasPriority ==
    [][ (RetryAlone /\ Top.pc # "start" /\ stop_flag /\ stack' = <<>>)
        => history'.report = "cancelled" ]_vars

\* The handler of a conditional click or of a click_while_exists on top.
CondAt(pc) == At("handler", pc) /\ Top.step.action \in CondActions
WhileAt(pc) == At("handler", pc) /\ Top.step.action \in WhileExistsActions
\* The matcher on top, called by the handler of a conditional click at pc.
MatcherOfCond(pc) ==
    /\ At("matcher", "poll") /\ Len(stack) >= 2
    /\ stack[Len(stack) - 1].fn = "handler"
    /\ stack[Len(stack) - 1].step.action \in CondActions
    /\ stack[Len(stack) - 1].pc = pc
OnlyCaptures(ops) == \A j \in 1..Len(ops) : ops[j][1] = "capture"
TappedPatterns(ops) == {ops[j][2] : j \in {i \in 1..Len(ops) : ops[i][1] = "tap"}}

\* C17: a conditional click in mode yes whose probe did not see the primary
\* pattern, or in mode no whose probe saw it, returns True right after the
\* probe: the probe only captured the screen, and the step issues no tap and no
\* key event and does not call try_return_home.
C17_SkipLeavesDeviceUntouched ==
    [][ /\ MatcherOfCond("probe") => OnlyCaptures(devOps')
        /\ (/\ CondAt("probe") /\ stack' # stack
            /\ \/ ModeOf(Top.step.action) = "yes" /\ ret # "True"
               \/ ModeOf(Top.step.action) = "no" /\ ret = "True")
           => (/\ stack' = Below /\ ret' = "True"
               /\ devOps' = <<>> /\ recovRuns' = recovRuns
               /\ in_return_home' = in_return_home)
      ]_vars

C17_Witness ==
    /\ CondAt("probe")
    /\ ModeOf(Top.step.action) = "yes"
    /\ ret = "False"
    /\ devOps = <<>>
    /\ recovRuns = 0

\* C18: in mode or, the click after the probe is one call of wait_and_click, on
\* the primary pattern when the probe saw it and on the fallback pattern
\* otherwise; every tap of the step is on that pattern, and after that call the
\* handler clicks nothing more.
C18_OrClicksTheProbedPattern ==
    [][ /\ (CondAt("probe") /\ ModeOf(Top.step.action) = "or" /\ stack' # stack)
           => (/\ Len(stack') = Len(stack) + 1
               /\ stack'[Len(stack)].pc = "click"
               /\ stack'[Len(stack')].fn = "matcher"
               /\ stack'[Len(stack')].tap
               /\ stack'[Len(stack')].templates =
                    <<IF ret = "True" THEN Top.step.primary_template
                                      ELSE Top.step.fallback_template>>)
        /\ (MatcherOfCond("click") /\ ModeOf(stack[Len(stack) - 1].step.action) = "or")
           => LET h == stack[Len(stack) - 1] IN
              TappedPatterns(devOps') \subseteq
                  {IF h.has_primary THEN h.step.primary_template
                                    ELSE h.step.fallback_template}
        /\ (CondAt("click") /\ stack' # stack)
           => (stack' = Below \/ stack'[Len(stack')].fn = "try_return_home")
      ]_vars

C18_Witness ==
    /\ CondAt("click")
    /\ ModeOf(Top.step.action) = "or"
    /\ Top.has_primary
    /\ ret = "True"
    /\ devOps = <<Capture, <<"tap", "P">>>>

\* C19: in every mode, when the click after the probe has failed, the step
\* returns True without calling try_return_home if ignore_fallback_fail is set,
\* and calls try_return_home and then returns False if it is not.
C19_IgnoreFallbackFail ==
    [][ /\ (CondAt("click") /\ ret # "True" /\ stack' # stack)
           => IF Top.step.ignore_fallback_fail
              THEN stack' = Below /\ ret' = "True" /\ recovRuns' = recovRuns
              ELSE stack' = Append(Append(Below, [Top EXCEPT !.pc = "recover"]),
                                   F_try_return_home)
        /\ (CondAt("recover") /\ stack' # stack)
           => (stack' = Below /\ ret' = "False")
      ]_vars

C19_Witness ==
    /\ CondAt("recover")
    /\ ModeOf(Top.step.action) = "no"
    /\ ~Top.step.ignore_fallback_fail
    /\ ~Top.has_primary
    /\ ret = "None"
    /\ recovRuns = 1

\* C20: the round of click_while_exists or click_any_while_exists in which the
\* pattern is not found ends the action with True, without a further capture,
\* tap or recovery, however many rounds before it found and clicked the
\* pattern, also with max_clicks = 0 and max_duration = 0.
C20_EndsWhenPatternGone ==
    [][ (WhileAt("matcher") /\ ret # "True" /\ stack' # stack)
        => (/\ stack' = Below /\ ret' = "True"
            /\ devOps' = <<>> /\ recovRuns' = recovRuns) ]_vars

C20_Witness ==
    /\ WhileAt("matcher")
    /\ Top.step.max_clicks = 0 /\ Top.step.max_duration = 0
    /\ Top.total_clicks >= 2
    /\ ret = "False"

LoopAt(pc) == At("handler", pc) /\ Top.step.action = "wait_and_click_loop"
MatcherOf(action) ==
    /\ At("matcher", "poll") /\ Len(stack) >= 2
    /\ stack[Len(stack) - 1].fn = "handler"
    /\ stack[Len(stack) - 1].step.action = action

\* C21: with max_clicks > 0, click_while_exists / click_any_while_exists goes on
\* to a further round only while the taps it has issued are fewer than
\* max_clicks, whatever click_times is.
C21_MaxClicksCapsTaps ==
    (WhileAt("loop") /\ Top.step.max_clicks > 0) => Top.tapped < Top.step.max_clicks

\* C22: wait_and_click_loop taps only in a round that hits and returns True
\* right after that round; a round that misses is followed by the next round
\* when max_wait = 0, and by the next round or, once the budget is exceeded, by
\* try_return_home and False when max_wait > 0; the flag set at the top of a
\* round returns False; False is returned in no other case.
C22_LoopUntilFirstHit ==
    [][ /\ (MatcherOf("wait_and_click_loop") /\ TappedPatterns(devOps') # {})
           => (stack' = Below /\ ret' = "True")
        /\ (LoopAt("matcher") /\ ret = "True" /\ stack' # stack)
           => (stack' = Below /\ ret' = "True" /\ devOps' = <<>> /\ recovRuns' = recovRuns)
        /\ (LoopAt("matcher") /\ ret # "True" /\ stack' # stack)
           => \/ stack' = Append(Below, [Top EXCEPT !.missed = TRUE, !.pc = "loop"])
              \/ /\ Top.step.max_wait > 0
                 /\ stack' = Append(Append(Below, [Top EXCEPT !.missed = TRUE, !.pc = "recover"]),
                                    F_try_return_home)
        /\ (LoopAt("loop") /\ stop_flag /\ stack' # stack)
           => (stack' = Below /\ ret' = "False" /\ devOps' = <<>>)
        /\ (At("handler", Top.pc) /\ Top.step.action = "wait_and_click_loop"
            /\ stack' = Below /\ ret' = "False")
           => \/ Top.pc = "loop" /\ stop_flag
              \/ Top.pc = "recover" /\ Top.step.max_wait > 0
      ]_vars

C22_Witness ==
    /\ LoopAt("matcher")
    /\ Top.step.max_wait = 0
    /\ Top.missed
    /\ ret = "True"
    /\ devOps = <<Capture, <<"tap", "X">>>>

\* C23: one poll of wait_and_click_any taps the candidate with the highest
\* score if that score is at or above the threshold, the first one in the
\* list among candidates with exactly that score, and taps nothing if no
\* candidate reaches the threshold.
Scored(readings) == {i \in 1..Len(readings) : readings[i] # NoScore}
Highest(readings) ==
    {i \in Scored(readings) : \A j \in Scored(readings) : readings[j] <= readings[i]}
Polled == phase = "done" /\ input.fn = "wait_and_click_any"
C23_HighestFirstWins ==
    Polled =>
        LET top == Highest(input.readings) IN
        IF \E i \in top : input.readings[i] >= Threshold
        THEN /\ output.ok
             /\ output.hit \in top
             /\ \A i \in top : output.hit <= i
        ELSE output = [ok |-> FALSE, hit |-> 0]
\* A tie at the top between the second and the third candidate, above the
\* threshold: the second is tapped.
C23_Witness ==
    /\ Polled
    /\ Len(input.readings) = 3
    /\ input.readings[1] < input.readings[2]
    /\ input.readings[2] = input.readings[3]
    /\ input.readings[2] >= Threshold
    /\ output.hit = 2

\* C24: expansion replaces every macro reference of a task, at its position,
\* by the macro's steps as the table holds them, and keeps the other steps in
\* their order; a reference inside an inlined body stays in the task and is
\* resolved by the sequence runner when it reaches it.
Width(step) == IF IsUse(step) THEN Len(cfg.macros[step.use_macro]) ELSE 1
RECURSIVE Offset(_, _)
Offset(raw, i) == IF i = 1 THEN 0 ELSE Offset(raw, i - 1) + Width(raw[i - 1])
InlinedInPlace(raw, expanded) ==
    /\ Len(expanded) = Offset(raw, Len(raw) + 1)
    /\ \A i \in 1..Len(raw) :
          LET off == Offset(raw, i) IN
          IF IsUse(raw[i])
          THEN SubSeq(expanded, off + 1, off + Width(raw[i])) = cfg.macros[raw[i].use_macro]
          ELSE expanded[off + 1] = raw[i]
Constructed == phase \in {"ready", "running", "done", "crashed"}
ExpandedOnce ==
    Constructed =>
        /\ Len(tasks) = Len(cfg.tasks)
        /\ \A t \in 1..Len(tasks) :
              /\ tasks[t].name = cfg.tasks[t].name
              /\ InlinedInPlace(cfg.tasks[t].steps, tasks[t].steps)
ResolvedByRunner ==
    /\ phase = "running" /\ stack # <<>>
    /\ Top.fn \in {"_run_steps", "run_single_task"} /\ Top.pc = "loop"
    /\ Top.i <= Len(Top.steps) /\ ~stop_flag
    /\ IsUse(Top.steps[Top.i]) /\ Top.steps[Top.i].use_macro \in DOMAIN macros
    /\ macros[Top.steps[Top.i].use_macro] # <<>>
    /\ Len(stack) < RecursionLimit
    /\ stack' # stack
    => /\ Len(stack') = Len(stack) + 1
       /\ stack'[Len(stack')] = F_run_steps(macros[Top.steps[Top.i].use_macro])
C24_SinglePassInlining == []ExpandedOnce /\ [][ResolvedByRunner]_vars
\* A task <<wait, use a, sleep>> with a = <<use b>>: the expanded task holds
\* the reference to b between its own steps, and the runner is inside b.
C24_Witness ==
    /\ phase = "running" /\ Len(stack) >= 2 /\ Len(cfg.tasks) = 1
    /\ cfg.tasks[1].steps = <<Wait, Use("a"), Sleep>>
    /\ tasks[1].steps = <<Wait, Use("b"), Sleep>>
    /\ stack[Len(stack) - 1].fn = "run_single_task"
    /\ stack[Len(stack) - 1].i = 2
    /\ Top = F_run_steps(macros["b"])

\* C25: the steps inlined from a macro are copies: a write to a step of one
\* expanded task changes neither the steps of any other task nor the steps of
\* the macro table.
StepWritten == phase = "ready" /\ heap' # heap
C25_InlinedStepsAreCopies ==
    [][StepWritten =>
          /\ \A u \in 1..Len(tasks) :
                u # input'.task => View(heap', tasks[u].steps) = View(heap, tasks[u].steps)
          /\ \A m \in DOMAIN macros : View(heap', macros[m]) = View(heap, macros[m])]_vars

\* C26: in _run_steps and in run_single_task alike, a step whose action is
\* not recognized is passed over: the runner goes on to the next step of the
\* same sequence, no device operation is issued and no recovery begins.
UnknownAhead ==
    /\ phase = "running" /\ stack # <<>>
    /\ Top.fn \in {"_run_steps", "run_single_task"} /\ Top.pc = "loop"
    /\ Top.i <= Len(Top.steps) /\ ~stop_flag
    /\ ~IsUse(Top.steps[Top.i])
    /\ Top.steps[Top.i].action \notin ActionHandlers
C26_UnknownActionSkipped ==
    [][UnknownAhead /\ stack' # stack =>
          /\ stack' = Append(Below, [Top EXCEPT !.i = Top.i + 1])
          /\ phase' = phase /\ error' = error
          /\ devOps' = <<>> /\ touched' = touched
          /\ recovRuns' = recovRuns]_vars
\* A task passed its unknown first step, its second step failed, and the
\* recovery macro in turn passed its unknown first step.
C26_Witness ==
    /\ phase = "running" /\ stack # <<>>
    /\ Top.fn = "_run_steps" /\ Top.pc = "loop" /\ Top.i = 2 /\ Top.steps[1] = Bogus
    /\ \E k \in 1..Len(stack) :
          /\ stack[k].fn = "run_single_task"
          /\ stack[k].i = 2
          /\ stack[k].steps[1] = Bogus

\* C27: a failed capture in a polling loop costs one interval and the loop
\* captures again; the poll fails only when its timeout has expired, succeeds
\* only on a capture that was taken, and starts no recovery itself.
Polling == phase = "running" /\ stack # <<>> /\ Top.fn = "matcher" /\ Top.pc = "poll"
C27_CaptureFailureRetried ==
    [][Polling /\ stack' # stack =>
          /\ devOps' = <<CaptureFailed>> =>
                /\ Top.elapsed < Top.timeout
                /\ stack' = Append(Below, [Top EXCEPT !.elapsed = Top.elapsed + 1,
                                                      !.capture_failed = TRUE])
          /\ ret' = "False" => Top.elapsed >= Top.timeout /\ devOps' = <<>>
          /\ ret' = "True" => devOps' # <<>> /\ devOps'[1] = Capture
          /\ recovRuns' = recovRuns /\ phase' = phase]_vars
\* A poll with a timeout of two intervals lost its first capture and is about
\* to capture again.
C27_Witness ==
    /\ Polling
    /\ Top.capture_failed
    /\ Top.elapsed = 1 /\ Top.timeout = 2
    /\ devOps = <<CaptureFailed>>

\* C28: for an absolute region, whatever its coordinates, _apply_roi returns
\* the region clamped to the image, with the offset of its top-left corner, if
\* the clamped region has positive width and height, and the whole image with
\* offset (0, 0) otherwise; the box returned lies inside the image.
Within(x, bound) == IF x < 0 THEN 0 ELSE IF x > bound THEN bound ELSE x
AppliedAbs == phase = "done" /\ input.fn = "_apply_roi" /\ input.roi_mode = "abs"
C28_RoiClampedOrWhole ==
    AppliedAbs =>
        LET left == Within(input.roi[1], input.w)
            top == Within(input.roi[2], input.h)
            right == Within(input.roi[3], input.w)
            bottom == Within(input.roi[4], input.h)
            box == output.region
        IN  /\ IF right - left <= 0 \/ bottom - top <= 0
               THEN output = [region |-> <<0, 0, input.w, input.h>>,
                              offset_x |-> 0, offset_y |-> 0]
               ELSE output = [region |-> <<left, top, right, bottom>>,
                              offset_x |-> left, offset_y |-> top]
            /\ 0 <= box[1] /\ box[1] < box[3] /\ box[3] <= input.w
            /\ 0 <= box[2] /\ box[2] < box[4] /\ box[4] <= input.h
\* A region that sticks out of a 2 by 3 image on both sides is cut to the
\* image's width; a reversed region gives the whole image.
C28_Witness ==
    /\ AppliedAbs
    /\ input.w = 2 /\ input.h = 3
    /\ \/ /\ input.roi = <<-1, 1, 3, 2>>
          /\ output = [region |-> <<0, 1, 2, 2>>, offset_x |-> 0, offset_y |-> 1]
       \/ /\ input.roi = <<2, 2, 1, 1>>
          /\ output = [region |-> <<0, 0, 2, 3>>, offset_x |-> 0, offset_y |-> 0]

\* C29: the cache is populated once per key: the first lookup of a pattern
\* reads its file, and no later lookup of that pattern reads it again.
C29_PopulateOncePerKey == \A k \in Keys : loads[k] <= 1

\* C30: run_daily_pipeline goes on to the next configuration, after the
\* scheduler has run on the current one, only if all tasks of the current
\* configuration have succeeded or cancellation was requested.
Switches ==
    /\ phase = "running" /\ stack # <<>>
    /\ Top.fn = "run_daily_pipeline" /\ Top.pc = "retry"
    /\ stack' # stack
C30_NextConfigOnlyAfterSuccess ==
    [][Switches => stop_flag \/ \A t \in 1..Len(tasks) : t \in history.succeeded]_vars

\* C31: an uncancelled run of run_daily_pipeline hands to the engine, in
\* order, the four configuration files listed in CONFIG_FLOW, each as a
\* configuration of its own.
Listed == [n \in 1..Len(ConfigLiterals) |-> ConfigLiterals[n].text]
FlowExhausted ==
    /\ phase = "running" /\ stack # <<>>
    /\ Top.fn = "run_daily_pipeline" /\ Top.pc = "loop"
    /\ Top.i > Len(Top.flow)
C31_FourListedConfigurations ==
    /\ (phase = "running" /\ stack # <<>>) =>
           \A n \in 1..Len(stack[1].opened) : stack[1].opened[n] \in ConfigFiles
    /\ (FlowExhausted /\ ~stop_flag) => Top.opened = Listed

\* C32: in run_multi_role_pipeline the first role runs the daily pipeline
\* with no switch; a later role's switch macro is attempted at most
\* SWITCH_MAX_RETRY times, an attempt fails only after its return-to-main
\* recovery, the daily pipeline of a later role starts only on a successful
\* switch, a role whose attempts are used up is passed over for the next
\* role, and a cancellation seen before an attempt ends the pipeline.
MultiRoleStep ==
    /\ phase = "running" /\ stack # <<>>
    /\ Top.fn = "run_multi_role_pipeline"
    /\ stack' # stack
DailyStarted(frame) ==
    stack' = <<[frame EXCEPT !.pc = "daily"], F_run_daily_pipeline(frame.flow)>>
AttemptsBounded ==
    (phase = "running" /\ Len(stack) >= 2 /\ stack[2].fn = "switch_attempt") =>
        /\ stack[1].idx > 1
        /\ stack[1].attempt \in 1..SWITCH_MAX_RETRY
        /\ stack[2].macro_name = ROLES[stack[1].idx]
RoleSteps ==
    MultiRoleStep =>
        /\ (Top.pc = "roles" /\ Top.idx = 1 /\ ~stop_flag) => DailyStarted(Top)
        /\ (Top.pc = "attempt" /\ Top.attempt > SWITCH_MAX_RETRY) =>
              stack' = <<[Top EXCEPT !.pc = "roles", !.idx = Top.idx + 1]>>
        /\ (Top.pc = "attempt" /\ Top.attempt <= SWITCH_MAX_RETRY /\ stop_flag) => stack' = <<>>
        /\ (Top.pc = "switching" /\ ret = "True") => DailyStarted(Top)
        /\ (Top.pc = "switching" /\ ret # "True") =>
              stack' = <<[Top EXCEPT !.pc = "attempt", !.attempt = Top.attempt + 1]>>
        /\ (Len(stack') = 2 /\ stack'[2].fn = "run_daily_pipeline") =>
              \/ Top.pc = "roles" /\ Top.idx = 1
              \/ Top.pc = "switching" /\ ret = "True"
FailedAttemptRecovers ==
    (/\ phase = "running" /\ stack # <<>> /\ Top.fn = "switch_attempt"
     /\ Len(stack') < Len(stack) /\ ret' # "True")
    => Top.pc = "recover" /\ ret = "None"
C32_RoleSwitching ==
    []AttemptsBounded /\ [][RoleSteps]_vars /\ [][FailedAttemptRecovers]_vars
\* The third role's daily pipeline runs after its second switch attempt.
C32_Witness ==
    /\ phase = "running" /\ Len(stack) >= 2
    /\ stack[1].fn = "run_multi_role_pipeline"
    /\ stack[1].pc = "daily" /\ stack[1].idx = 3 /\ stack[1].attempt = 2
    /\ stack[2].fn = "run_daily_pipeline"

\* C33: a macro of the table whose step list is empty runs as the empty
\* sequence: a reference to it in _run_steps or run_single_task lets the
\* runner go on, and run_macro_by_name on it does not return False.
EmptyMacro(m) == m \in DOMAIN macros /\ macros[m] = <<>>
EmptyReferenceRuns ==
    (/\ phase = "running" /\ stack # <<>> /\ SeqFrame(Top) /\ Top.pc = "loop"
     /\ Top.i <= Len(Top.steps) /\ ~stop_flag /\ stack' # stack
     /\ IsUse(Top.steps[Top.i]) /\ EmptyMacro(Top.steps[Top.i].use_macro))
    => \/ stack' = Append(Below, [Top EXCEPT !.i = Top.i + 1])
       \/ stack' = Append(Append(Below, [Top EXCEPT !.pc = "sub"]), F_run_steps(<<>>))
EmptyMacroByName ==
    (/\ phase = "running" /\ stack # <<>> /\ Top.fn = "run_macro_by_name" /\ Top.pc = "start"
     /\ EmptyMacro(Top.macro_name) /\ stack' # stack)
    => ~(stack' = Below /\ ret' = "False")
C33_EmptyMacroSucceeds == [][EmptyReferenceRuns]_vars /\ [][EmptyMacroByName]_vars

\* C34: at most one worker is alive at a time, and a start request while a
\* worker is alive creates none; a worker's cancellation flag is clear when
\* the worker is created, is never cleared once set, and is set only for the
\* worker the GUI holds, which no later worker has replaced.
Alive == {w \in 1..Len(workers) : workers[w].state = "alive"}
OneWorkerAlive ==
    /\ Cardinality(Alive) <= 1
    /\ \A w \in 1..Len(workers) : w < gui.worker => workers[w].state = "dead"
StartRefusedWhileAlive ==
    (gui.pc = "idle" /\ Alive # {}) => Len(workers') = Len(workers)
FlagsOwned ==
    /\ Len(workers') > Len(workers) => ~workers'[Len(workers')].stop_event
    /\ \A w \in 1..Len(workers) :
          /\ workers[w].stop_event => workers'[w].stop_event
          /\ (~workers[w].stop_event /\ workers'[w].stop_event) =>
                gui.pc = "stop" /\ w = gui.worker /\ w = Len(workers)
C34_OneWorkerOwnFlag ==
    []OneWorkerAlive /\ [][StartRefusedWhileAlive]_vars /\ [][FlagsOwned]_vars
\* The first worker was stopped and has ended; a second worker runs with its
\* flag clear.
C34_Witness ==
    /\ Len(workers) = 2
    /\ workers[1].state = "dead" /\ workers[1].stop_event
    /\ workers[2].state = "alive" /\ ~workers[2].stop_event

\* C35: once a stop is requested, the worker thread eventually ends, in
\* every mode and from inside every loop that has no bound of its own.
Terminated == phase \in {"done", "crashed", "init_failed"}
C35_CancellationHonoured == stop_flag ~> Terminated
\* An unbounded retry over a task that waits without limit has ended: the
\* task failed, which it does only on cancellation.
C35_Witness ==
    /\ phase = "done" /\ stop_flag
    /\ tasks # <<>> /\ tasks[1].steps = <<WaitLoop(0)>>
    /\ cfg.call.fn = "run_all_tasks_with_retry" /\ cfg.call.max_rounds = 0
    /\ history.last # <<>> /\ history.last[1] = "False"
    /\ macros[HOME] = <<WaitLoop(0)>>

\* C36: when the stop flag is already set at the call of try_return_home, the
\* recovery macro issues no capture, tap or key event, and try_return_home
\* returns with the guard as it was at the call.
InRecoveryMacro ==
    /\ At("_run_steps", "loop") /\ Top.i = 1
    /\ Len(stack) >= 2
    /\ Below[Len(Below)].fn = "try_return_home" /\ Below[Len(Below)].pc = "run"
CalledWhenCancelled ==
    (At("try_return_home", "start") /\ stop_flag /\ stack' # stack)
        => /\ devOps' = <<>>
           /\ \/ stack' = Below /\ in_return_home' = in_return_home
              \/ phase' = "crashed" /\ in_return_home' = in_return_home
              \/ /\ stack' = Append(Append(Below, [Top EXCEPT !.pc = "run",
                                                         !.old_flag = in_return_home]),
                                    F_run_steps(macros[HOME]))
                 /\ in_return_home'
                 /\ InRecoveryMacro'
MacroCancelled ==
    (InRecoveryMacro /\ stop_flag /\ stack' # stack)
        => devOps' = <<>> /\ stack' = Below /\ ret' = "False"
GuardRestored ==
    (At("try_return_home", "run") /\ stack' # stack)
        => devOps' = <<>> /\ stack' = Below /\ in_return_home' = Top.old_flag
C36_CancelledRecoveryIdle ==
    [][CalledWhenCancelled]_vars /\ [][MacroCancelled]_vars /\ [][GuardRestored]_vars
\* A task's sub-macro was cancelled before anything was done on the device;
\* the recovery that run_single_task then started has come back untouched.
C36_Witness ==
    /\ At("try_return_home", "run") /\ stop_flag
    /\ ret = "False" /\ in_return_home /\ ~touched
    /\ ~Top.old_flag
    /\ \E k \in 1..Len(macros[HOME]) : macros[HOME][k] \in {Key, Click, Wait}
    /\ Below # <<>> /\ Below[Len(Below)].fn = "run_single_task"

====
